---- MODULE Spec2Model ----
(***************************************************************************)
(* Task graph engine of TAMA: the in-memory task collection, the           *)
(* identifier resolver, the next-task scheduler, the status state machine  *)
(* and the task/subtask mutators of src/src/task_manager/core.py.          *)
(*                                                                         *)
(* A Python str is a sequence of one-character strings, so that parsing    *)
(* (int(), split('.')) and formatting (str()) are computed, not assumed.   *)
(***************************************************************************)
EXTENDS Integers, Sequences, FiniteSets, TLC

VARIABLES
    tasks,                   \* the collection: List[Task]
    task_execution_history,  \* core.task_execution_history
    call,                    \* the last operation called, with its arguments
    ret,                     \* what that call returned or raised
    pre,                     \* the collection when that call started
    preHistory,              \* the history when that call started
    nops,                    \* number of calls so far that changed something
    frames,                  \* the set_task_status calls in progress, innermost last
    threads                  \* the add_new_task call each thread is in

vars == <<tasks, task_execution_history, call, ret, pre, preHistory, nops,
          frames, threads>>

\* Bound on the number of state-changing calls in one behaviour.
MaxOps == 1

-----------------------------------------------------------------------------
(* Python str helpers *)

Digits == {"0", "1", "2", "3", "4", "5", "6", "7", "8", "9"}

DigitVal(c) ==
    CASE c = "0" -> 0 [] c = "1" -> 1 [] c = "2" -> 2 [] c = "3" -> 3
      [] c = "4" -> 4 [] c = "5" -> 5 [] c = "6" -> 6 [] c = "7" -> 7
      [] c = "8" -> 8 [] c = "9" -> 9

DigitChar(d) ==
    CASE d = 0 -> "0" [] d = 1 -> "1" [] d = 2 -> "2" [] d = 3 -> "3"
      [] d = 4 -> "4" [] d = 5 -> "5" [] d = 6 -> "6" [] d = 7 -> "7"
      [] d = 8 -> "8" [] d = 9 -> "9"

\* str(n) for an int n
RECURSIVE NatToStr(_)
NatToStr(n) ==
    IF n < 10 THEN <<DigitChar(n)>>
    ELSE NatToStr(n \div 10) \o <<DigitChar(n % 10)>>

IntToStr(n) == IF n < 0 THEN <<"-">> \o NatToStr(0 - n) ELSE NatToStr(n)

\* '.' in s
HasDot(s) == \E i \in 1..Len(s) : s[i] = "."

\* s.split('.')
RECURSIVE Split(_)
Split(s) ==
    IF ~HasDot(s) THEN <<s>>
    ELSE LET i == CHOOSE k \in 1..Len(s) :
                      s[k] = "." /\ \A j \in 1..(k - 1) : s[j] # "."
         IN  <<SubSeq(s, 1, i - 1)>> \o Split(SubSeq(s, i + 1, Len(s)))

\* s.strip(), as int() applies it to its argument
RECURSIVE LStrip(_)
LStrip(s) == IF Len(s) > 0 /\ s[1] = " " THEN LStrip(Tail(s)) ELSE s

RECURSIVE RStrip(_)
RStrip(s) ==
    IF Len(s) > 0 /\ s[Len(s)] = " " THEN RStrip(SubSeq(s, 1, Len(s) - 1))
    ELSE s

\* the digit part of an int literal: digits, single underscores between them
DigitsOk(s) ==
    /\ Len(s) > 0
    /\ s[1] \in Digits
    /\ s[Len(s)] \in Digits
    /\ \A i \in 1..Len(s) : s[i] \in Digits \cup {"_"}
    /\ \A i \in 1..(Len(s) - 1) : ~(s[i] = "_" /\ s[i + 1] = "_")

RECURSIVE DigitsVal(_)
DigitsVal(s) ==
    IF Len(s) = 0 THEN 0
    ELSE LET c == s[Len(s)]
             r == SubSeq(s, 1, Len(s) - 1)
         IN  IF c = "_" THEN DigitsVal(r)
             ELSE 10 * DigitsVal(r) + DigitVal(c)

\* int(s): ok = FALSE stands for ValueError
PyInt(s) ==
    LET t      == RStrip(LStrip(s))
        signed == Len(t) > 0 /\ t[1] \in {"+", "-"}
        body   == IF signed THEN Tail(t) ELSE t
    IN  IF DigitsOk(body)
        THEN [ok |-> TRUE,
              v  |-> IF signed /\ t[1] = "-" THEN 0 - DigitsVal(body)
                     ELSE DigitsVal(body)]
        ELSE [ok |-> FALSE, v |-> 0]

-----------------------------------------------------------------------------
(* Data model *)

\* Status.__args__
Status == {"pending", "in-progress", "done", "blocked", "deferred", "review"}

\* Priority.__args__
Priority == {"low", "medium", "high"}

\* settings.DEFAULT_PRIORITY
DEFAULT_PRIORITY == "medium"

\* Dependency = Union[int, str]
DInt(n) == [isInt |-> TRUE, n |-> n, s |-> <<>>]
DStr(s) == [isInt |-> FALSE, n |-> 0, s |-> s]

\* str(dep_id)
DepToStr(d) == IF d.isInt THEN IntToStr(d.n) ELSE d.s

Subtask(id, status, dependencies, parent) ==
    [id |-> id, status |-> status, priority |-> DEFAULT_PRIORITY,
     dependencies |-> dependencies, parent_task_id |-> parent]

Task(id, status, priority, dependencies, subtasks) ==
    [id |-> id, status |-> status, priority |-> priority,
     dependencies |-> dependencies, subtasks |-> subtasks]

\* The Task model declares no parent_task_id field: reading it raises
\* AttributeError.
TaskHasParentTaskId == FALSE

\* The Subtask model declares no subtasks field: reading it raises
\* AttributeError.
SubtaskHasSubtasks == FALSE

-----------------------------------------------------------------------------
(* get_task_by_id *)

\* A reference to an entity of a collection: kind "task" (ti), "subtask"
\* (ti, si) or "none" (the None result).
NoRef == [kind |-> "none", ti |-> 0, si |-> 0]
TaskRef(i) == [kind |-> "task", ti |-> i, si |-> 0]
SubRef(i, j) == [kind |-> "subtask", ti |-> i, si |-> j]

\* next((t for t in tasks if t.id == n), None): index of the first match, 0
\* when there is none
FirstWithId(seq, n) ==
    IF \E i \in 1..Len(seq) : seq[i].id = n
    THEN CHOOSE i \in 1..Len(seq) :
             seq[i].id = n /\ \A j \in 1..(i - 1) : seq[j].id # n
    ELSE 0

\* GetTaskById without the composite branch: every string is a plain task id
GetTaskByIdTaskOnly(ts, s) ==
    IF Len(s) = 0 THEN NoRef
    ELSE LET p == PyInt(s)
         IN  IF ~p.ok THEN NoRef
             ELSE LET ti == FirstWithId(ts, p.v)
                  IN  IF ti = 0 THEN NoRef ELSE TaskRef(ti)

GetTaskById(ts, s) ==
    IF Len(s) = 0 THEN NoRef
    ELSE IF HasDot(s)
    THEN LET parts == Split(s)
         IN  IF Len(parts) # 2 \/ Len(parts[1]) = 0 \/ Len(parts[2]) = 0
             THEN NoRef
             ELSE LET p == PyInt(parts[1])
                      q == PyInt(parts[2])
                  IN  IF ~p.ok \/ ~q.ok THEN NoRef
                      ELSE LET ti == FirstWithId(ts, p.v)
                           IN  IF ti = 0 THEN NoRef
                               ELSE IF Len(ts[ti].subtasks) = 0 THEN NoRef
                               ELSE LET si == FirstWithId(ts[ti].subtasks, q.v)
                                    IN  IF si = 0 THEN NoRef
                                        ELSE SubRef(ti, si)
    ELSE LET p == PyInt(s)
         IN  IF ~p.ok THEN NoRef
             ELSE LET ti == FirstWithId(ts, p.v)
                  IN  IF ti = 0 THEN NoRef ELSE TaskRef(ti)

\* item.status of the entity a reference points at
StatusOf(ts, r) ==
    IF r.kind = "task" THEN ts[r.ti].status
    ELSE ts[r.ti].subtasks[r.si].status

-----------------------------------------------------------------------------
(* find_next_task *)

\* CompletedIds that takes every task for completed
CompletedIdsAll(ts) ==
    {ts[i].id : i \in 1..Len(ts)}

CompletedIds(ts) ==
    {ts[i].id : i \in {j \in 1..Len(ts) : ts[j].status = "done"}}

\* DepMet with the status test of an integer reference forgotten
DepMetAnyStatus(ts, d) ==
    IF d.isInt THEN \E i \in 1..Len(ts) : ts[i].id = d.n
    ELSE IF HasDot(d.s)
    THEN LET r == GetTaskById(ts, d.s)
         IN  r.kind # "none" /\ StatusOf(ts, r) = "done"
    ELSE FALSE

\* DepMet that takes no composite reference for satisfied
DepMetTasksOnly(ts, d) ==
    d.isInt /\ d.n \in CompletedIds(ts)

\* one iteration of the dependency loop: TRUE iff deps_met stays True
DepMet(ts, d) ==
    IF d.isInt THEN d.n \in CompletedIds(ts)
    ELSE IF HasDot(d.s)
    THEN LET r == GetTaskById(ts, d.s)
         IN  r.kind # "none" /\ StatusOf(ts, r) = "done"
    ELSE FALSE

\* IsEligible that skips only the tasks that are done
IsEligibleBlockedToo(ts, i) ==
    /\ ts[i].status # "done"
    /\ \A k \in 1..Len(ts[i].dependencies) : DepMet(ts, ts[i].dependencies[k])

\* the tasks the loop appends to eligible
IsEligible(ts, i) ==
    /\ ts[i].status # "done"
    /\ \A k \in 1..Len(ts[i].dependencies) : DepMet(ts, ts[i].dependencies[k])
    /\ ts[i].status # "blocked"

\* priority_map.get(t.priority, 2)
PriorityRank(p) ==
    CASE p = "high" -> 3 [] p = "medium" -> 2 [] p = "low" -> 1 [] OTHER -> 2

\* KeyLess that sorts by id alone
KeyLessIdOnly(ts, i, j) == ts[i].id < ts[j].id

\* the sort key (-rank, id), compared as Python compares tuples
KeyLess(ts, i, j) ==
    \/ 0 - PriorityRank(ts[i].priority) < 0 - PriorityRank(ts[j].priority)
    \/ /\ PriorityRank(ts[i].priority) = PriorityRank(ts[j].priority)
       /\ ts[i].id < ts[j].id

\* index of the task find_next_task returns, 0 for None: eligible[0] after a
\* stable sort is the first task, in list order, that no eligible task precedes
FindNextTask(ts) ==
    LET eligible == {i \in 1..Len(ts) : IsEligible(ts, i)}
    IN  IF eligible = {} THEN 0
        ELSE CHOOSE i \in eligible :
                 /\ \A j \in eligible : ~KeyLess(ts, j, i)
                 /\ \A j \in eligible : j < i => KeyLess(ts, i, j)

-----------------------------------------------------------------------------
(* set_task_status *)

RetBool(b) ==
    [kind |-> "bool", ok |-> b, ref |-> NoRef, exc |-> "",
     path |-> <<>>]
RetNone ==
    [kind |-> "none", ok |-> FALSE, ref |-> NoRef, exc |-> "",
     path |-> <<>>]
RetEntity(r) ==
    [kind |-> r.kind, ok |-> TRUE, ref |-> r, exc |-> "",
     path |-> <<>>]
\* raise typer.Exit(code): the exit code of a command
RetExit(code) ==
    [kind |-> "exit", ok |-> code = 0, ref |-> NoRef, exc |-> "",
     path |-> <<>>]

\* a returned list of node labels
RetCycle(p) ==
    [kind |-> "cycle", ok |-> TRUE, ref |-> NoRef, exc |-> "", path |-> p]
RetRaise(e) ==
    [kind |-> "raise", ok |-> FALSE, ref |-> NoRef, exc |-> e,
     path |-> <<>>]

\* ValidStatus with the membership test dropped
ValidStatusAny(st) == TRUE

\* new_status in Status.__args__
ValidStatus(st) == st \in Status

\* AlreadySet with the early return dropped
AlreadySetNever(old, new) == FALSE

\* old_status == new_status
AlreadySet(old, new) == old = new

\* item.status = new_status
AssignStatus(ts, r, st) ==
    IF r.kind = "task" THEN [ts EXCEPT ![r.ti].status = st]
    ELSE [ts EXCEPT ![r.ti].subtasks[r.si].status = st]

\* HistoryRecord that reads the old status after the assignment
HistoryRecordAfterAssign(id, old, new) ==
    [task_id |-> id, old_status |-> new, new_status |-> new, success |-> TRUE]

\* the record appended to task_execution_history (the three timestamps of
\* the record are wall-clock values and are left out)
HistoryRecord(id, old, new) ==
    [task_id |-> id, old_status |-> old, new_status |-> new, success |-> TRUE]

\* RecordExecution that puts the new record in front
RecordExecutionInFront(hist, id, old, new) ==
    <<HistoryRecord(id, old, new)>> \o hist

\* task_execution_history.append({...})
RecordExecution(hist, id, old, new) ==
    Append(hist, HistoryRecord(id, old, new))

\* PropagateDown that stops after the first subtask
PropagateDownFirstOnly(ts, ti) ==
    [ts EXCEPT ![ti].subtasks[1].status = "done"]

\* for subtask in item.subtasks: subtask.status = "done"
PropagateDown(ts, ti) ==
    [ts EXCEPT ![ti].subtasks =
        [j \in 1..Len(ts[ti].subtasks) |->
            [ts[ti].subtasks[j] EXCEPT !.status = "done"]]]

\* RuleA for every new status
RuleAAnyStatus(ts, r, st) ==
    r.kind = "task" /\ Len(ts[r.ti].subtasks) > 0

\* isinstance(item, Task) and item.status == "done" and item.subtasks
RuleA(ts, r, st) ==
    r.kind = "task" /\ st = "done" /\ Len(ts[r.ti].subtasks) > 0

\* AllSubsDone with any() in the place of all()
AnySubDone(t) == \E j \in 1..Len(t.subtasks) : t.subtasks[j].status = "done"

\* all(st.status == 'done' for st in parent_task.subtasks)
AllSubsDone(t) == \A j \in 1..Len(t.subtasks) : t.subtasks[j].status = "done"

\* the Subtask branch of the propagation: the collection and the outcome
PropagateUp(ts, r) ==
    LET pi == FirstWithId(ts, ts[r.ti].subtasks[r.si].parent_task_id)
    IN  IF pi # 0 /\ Len(ts[pi].subtasks) > 0
           /\ AllSubsDone(ts[pi]) /\ ts[pi].status # "done"
        THEN [tasks |-> [ts EXCEPT ![pi].status = "done"],
              ret   |-> IF TaskHasParentTaskId THEN RetBool(TRUE)
                        ELSE RetRaise("AttributeError")]
        ELSE [tasks |-> ts, ret |-> RetBool(TRUE)]

\* set_task_status(tasks, task_id_str, new_status): the collection and the
\* history it leaves, and what it returns or raises
SetTaskStatus(ts, hist, id, st) ==
    IF ~ValidStatus(st)
    THEN [tasks |-> ts, history |-> hist, ret |-> RetBool(FALSE)]
    ELSE LET r == GetTaskById(ts, id)
         IN  IF r.kind = "none"
             THEN [tasks |-> ts, history |-> hist, ret |-> RetBool(FALSE)]
             ELSE IF AlreadySet(StatusOf(ts, r), st)
             THEN [tasks |-> ts, history |-> hist, ret |-> RetBool(TRUE)]
             ELSE LET ts1 == AssignStatus(ts, r, st)
                      h1  == RecordExecution(hist, id, StatusOf(ts, r), st)
                  IN  IF RuleA(ts1, r, st)
                      THEN [tasks |-> PropagateDown(ts1, r.ti),
                            history |-> h1, ret |-> RetBool(TRUE)]
                      ELSE IF r.kind = "subtask" /\ st = "done"
                      THEN LET u == PropagateUp(ts1, r)
                           IN  [tasks |-> u.tasks, history |-> h1,
                                ret |-> u.ret]
                      ELSE [tasks |-> ts1, history |-> h1,
                            ret |-> RetBool(TRUE)]

-----------------------------------------------------------------------------
(* add_new_task, add_subtask, remove_subtask *)

\* MaxId that takes the smallest id
MinId(seq) ==
    CHOOSE m \in {seq[i].id : i \in 1..Len(seq)} :
        \A i \in 1..Len(seq) : seq[i].id >= m

\* max(x.id for x in seq)
MaxId(seq) ==
    CHOOSE m \in {seq[i].id : i \in 1..Len(seq)} :
        \A i \in 1..Len(seq) : seq[i].id <= m

\* NewId that leaves the id after the greatest one unused
NewIdSkipping(seq) ==
    IF Len(seq) = 0 THEN 1 ELSE MaxId(seq) + 2

\* NewId without the increment
NewIdNoIncrement(seq) == IF Len(seq) = 0 THEN 1 ELSE MaxId(seq)

\* new_id, for a task or for a subtask of a parent
NewId(seq) ==
    IF Len(seq) = 0 THEN 1 ELSE MaxId(seq) + 1

\* DepFound that also finds the id the new task is about to get
DepFoundOrNew(ts, d) ==
    GetTaskById(ts, DepToStr(d)).kind # "none" \/ d = DInt(NewId(ts))

\* if get_task_by_id(tasks, str(dep_id)): valid_deps.append(dep_id)
DepFound(ts, d) ==
    GetTaskById(ts, DepToStr(d)).kind # "none"

\* ValidDeps that keeps every requested reference
ValidDepsUnfiltered(ts, deps) == deps

RECURSIVE ValidDeps(_, _)
ValidDeps(ts, deps) ==
    IF Len(deps) = 0 THEN <<>>
    ELSE IF DepFound(ts, Head(deps))
    THEN <<Head(deps)>> \o ValidDeps(ts, Tail(deps))
    ELSE ValidDeps(ts, Tail(deps))

AddNewTask(ts, priority, deps) ==
    Append(ts, Task(NewId(ts), "pending", priority, ValidDeps(ts, deps), <<>>))

\* FindParent that falls back to the last task
FindParentOrLast(ts, parent_task_id) ==
    IF FirstWithId(ts, parent_task_id) = 0 THEN Len(ts)
    ELSE FirstWithId(ts, parent_task_id)

\* parent_task of add_subtask: 0 stands for None
FindParent(ts, parent_task_id) == FirstWithId(ts, parent_task_id)

\* NewSubtask that records the id before the one of the parent
NewSubtaskParentOff(ts, pi, parent_task_id, deps) ==
    Subtask(NewId(ts[pi].subtasks), "pending", ValidDeps(ts, deps),
            parent_task_id - 1)

\* new_subtask = Subtask(id=new_id, ..., parent_task_id=parent_task_id)
NewSubtask(ts, pi, parent_task_id, deps) ==
    Subtask(NewId(ts[pi].subtasks), "pending", ValidDeps(ts, deps),
            parent_task_id)

\* AddSubtaskTo that inserts the new subtask in front
AddSubtaskToFront(ts, pi, parent_task_id, deps) ==
    [ts EXCEPT ![pi].subtasks =
        <<NewSubtask(ts, pi, parent_task_id, deps)>> \o @]

\* parent_task.subtasks.append(new_subtask)
AddSubtaskTo(ts, pi, parent_task_id, deps) ==
    [ts EXCEPT ![pi].subtasks =
        Append(@, NewSubtask(ts, pi, parent_task_id, deps))]

\* WithoutId with the filter inverted: keeps the subtasks with that id
OnlyId(seq, n) ==
    SelectSeq(seq, LAMBDA st : st.id = n)

\* [st for st in task.subtasks if st.id != subtask_id]
RECURSIVE WithoutId(_, _)
WithoutId(seq, n) ==
    IF Len(seq) = 0 THEN <<>>
    ELSE IF Head(seq).id # n THEN <<Head(seq)>> \o WithoutId(Tail(seq), n)
    ELSE WithoutId(Tail(seq), n)

\* remove_subtask(tasks, task_id_str, subtask_id): the collection it leaves
\* and what it returns or raises
RemoveSubtaskFrom(ts, id, sub) ==
    LET r == GetTaskById(ts, id)
    IN  IF r.kind = "none" THEN [tasks |-> ts, ret |-> RetBool(FALSE)]
        ELSE IF r.kind = "subtask"
        THEN \* task is a Subtask: "not task.subtasks" reads its subtasks
             [tasks |-> ts,
              ret |-> IF SubtaskHasSubtasks THEN RetBool(FALSE)
                      ELSE RetRaise("AttributeError")]
        ELSE IF Len(ts[r.ti].subtasks) = 0
        THEN [tasks |-> ts, ret |-> RetBool(FALSE)]
        ELSE LET rest == WithoutId(ts[r.ti].subtasks, sub)
             IN  [tasks |-> [ts EXCEPT ![r.ti].subtasks = rest],
                  ret |-> RetBool(Len(rest) < Len(ts[r.ti].subtasks))]

-----------------------------------------------------------------------------
(* remove_command of the command line *)

\* task_id.split('.', 1), for a task_id that holds a separator
SplitOnce(s) ==
    LET i == CHOOSE k \in 1..Len(s) :
                 s[k] = "." /\ \A j \in 1..(k - 1) : s[j] # "."
    IN  <<SubSeq(s, 1, i - 1), SubSeq(s, i + 1, Len(s))>>

\* WithoutTask that also deletes the references to the removed task
WithoutTaskAndRefs(ts, n) ==
    LET kept == SelectSeq(ts, LAMBDA t : t.id # n)
    IN  [i \in 1..Len(kept) |->
            [kept[i] EXCEPT !.dependencies =
                SelectSeq(@, LAMBDA d : ~(d.isInt /\ d.n = n))]]

\* the list rebuilt without the tasks whose id is n
WithoutTask(ts, n) ==
    SelectSeq(ts, LAMBDA t : t.id # n)

\* the list rebuilt with the subtasks of id m taken out of the tasks of id n
WithoutSubtask(ts, n, m) ==
    [i \in 1..Len(ts) |->
        IF ts[i].id = n
        THEN [ts[i] EXCEPT !.subtasks = SelectSeq(@, LAMBDA st : st.id # m)]
        ELSE ts[i]]

\* the try block of remove_command: ok = FALSE stands for ValueError,
\* tasks is new_tasks and removed is removed_count
RemoveCommandTry(ts, s) ==
    IF HasDot(s)
    THEN LET parts == SplitOnce(s)
             p == PyInt(parts[1])
             q == PyInt(parts[2])
         IN  IF ~p.ok \/ ~q.ok
             THEN [ok |-> FALSE, tasks |-> ts, removed |-> 0]
             ELSE [ok |-> TRUE, tasks |-> WithoutSubtask(ts, p.v, q.v),
                   removed |-> Cardinality(
                       {i \in 1..Len(ts) :
                           /\ ts[i].id = p.v
                           /\ \E j \in 1..Len(ts[i].subtasks) :
                                  ts[i].subtasks[j].id = q.v})]
    ELSE LET p == PyInt(s)
         IN  IF ~p.ok THEN [ok |-> FALSE, tasks |-> ts, removed |-> 0]
             ELSE [ok |-> TRUE, tasks |-> WithoutTask(ts, p.v),
                   removed |-> Cardinality(
                       {i \in 1..Len(ts) : ts[i].id = p.v})]

\* what storage.save_tasks may do: write the file and return True, return
\* False, or raise
SaveOutcomes == {"ok", "false", "raise"}

\* save_task_data(tasks_data) followed by the success panel: the exit code
SaveTaskData(sv) == IF sv = "raise" THEN RetExit(1) ELSE RetExit(0)

-----------------------------------------------------------------------------
(* Collections the process starts from *)

\* the collection of the unit tests, with the status of every entity left open
sample_tasks_list(s1, s2, s3, s4, s31, s32) ==
    << Task(1, s1, "high", <<>>, <<>>),
       Task(2, s2, "medium", <<DInt(1)>>, <<>>),
       Task(3, s3, "high", <<DInt(1)>>,
            << Subtask(1, s31, <<>>, 3),
               Subtask(2, s32, <<DInt(1)>>, 3) >>),
       Task(4, s4, "low", <<DInt(2), DStr(<<"3", ".", "1">>)>>, <<>>) >>

\* What load_tasks() may hand over at process start: no stored collection,
\* or the sample collection in the statuses the tests put it in.
InitialCollections ==
    {<<>>}
    \cup {sample_tasks_list("done", "pending", s3, "pending", "done", "pending") :
              s3 \in Status}
    \cup {sample_tasks_list("done", "pending", "pending", "pending", "pending", "pending"),
          sample_tasks_list("done", "done", "pending", "pending", "done", "pending"),
          sample_tasks_list("blocked", "pending", "pending", "pending", "pending", "pending"),
          sample_tasks_list("blocked", "blocked", "blocked", "blocked", "pending", "pending"),
          sample_tasks_list("done", "done", "done", "done", "done", "done")}

-----------------------------------------------------------------------------
(* Arguments the callers pass *)

Str1(a) == <<a>>
Str3(a, b, c) == <<a, b, c>>

IdInputs ==
    { Str1("1"), Str1("3"), Str1("4"), Str1("9"),
      Str3("3", ".", "1"), Str3("3", ".", "2"), Str3("3", ".", "3"),
      <<"3", ".">> }

\* 'todo' is the status the automation interface advertises; it is not a
\* member of Status
StatusInputs == {"pending", "done", "todo"}

PriorityInputs == {"high", "low"}

DepListInputs ==
    { <<>>,
      <<DInt(1), DInt(99), DStr(Str3("3", ".", "1")), DStr(Str3("3", ".", "9")),
        DInt(2), DStr(Str1("x"))>> }

ParentIdInputs == {1, 3, 9}

SubtaskIdInputs == {1, 3}

RemoveIdInputs == {Str1("1"), Str1("3"), Str1("9"), Str3("3", ".", "1")}

RemoveCommandIds == RemoveIdInputs \cup { <<"3", ".">> }

\* save is the outcome of storage.save_tasks when the caller reached it
\* ("none" when it did not), changed tells that the call had changed the
\* collection it works on before saving
NoCall ==
    [op |-> "none", id |-> <<>>, status |-> "", parent |-> 0, sub |-> 0,
     priority |-> "", deps |-> <<>>, save |-> "none", changed |-> FALSE]

\* the threads that call into the core, and a thread that is in no call
Threads == {"t1", "t2"}

IdleThread ==
    [pc |-> "idle", new_id |-> 0, priority |-> "", deps |-> <<>>,
     valid_deps |-> <<>>, base |-> <<>>]

NoThreads == [t \in Threads |-> IdleThread]

-----------------------------------------------------------------------------
(* The state machine *)

Init ==
    /\ tasks \in InitialCollections
    /\ task_execution_history = <<>>
    /\ call = NoCall
    /\ ret = RetNone
    /\ pre = tasks
    /\ preHistory = <<>>
    /\ nops = 0
    /\ frames = <<>>
    /\ threads = NoThreads

\* a call that leaves ts, hist behind: the bookkeeping common to all
\* actions, max being the number of state-changing calls a run may make
FinishWithin(max, c, r, ts, hist) ==
    /\ (ts # tasks \/ hist # task_execution_history) => nops < max
    /\ tasks' = ts
    /\ task_execution_history' = hist
    /\ call' = c
    /\ ret' = r
    /\ pre' = tasks
    /\ preHistory' = task_execution_history
    /\ nops' = IF ts # tasks \/ hist # task_execution_history
               THEN nops + 1 ELSE nops
    /\ UNCHANGED <<frames, threads>>

Finish(c, r, ts, hist) == FinishWithin(MaxOps, c, r, ts, hist)

SetStatus ==
    \E id \in IdInputs, st \in StatusInputs :
        LET out == SetTaskStatus(tasks, task_execution_history, id, st)
        IN  Finish([NoCall EXCEPT !.op = "set_task_status", !.id = id,
                                  !.status = st],
                   out.ret, out.tasks, out.history)

FindNext ==
    LET i == FindNextTask(tasks)
    IN  Finish([NoCall EXCEPT !.op = "find_next_task"],
               IF i = 0 THEN RetNone ELSE RetEntity(TaskRef(i)),
               tasks, task_execution_history)

AddTask ==
    \E p \in PriorityInputs, deps \in DepListInputs :
        LET ts == AddNewTask(tasks, p, deps)
        IN  Finish([NoCall EXCEPT !.op = "add_new_task", !.priority = p,
                                  !.deps = deps],
                   RetEntity(TaskRef(Len(ts))), ts, task_execution_history)

AddSubtask ==
    \E parent \in ParentIdInputs, deps \in DepListInputs :
        LET pi == FindParent(tasks, parent)
            c  == [NoCall EXCEPT !.op = "add_subtask", !.parent = parent,
                                 !.priority = DEFAULT_PRIORITY, !.deps = deps]
        IN  IF pi = 0
            THEN Finish(c, RetRaise("ParentTaskNotFoundError"),
                        tasks, task_execution_history)
            ELSE LET ts == AddSubtaskTo(tasks, pi, parent, deps)
                 IN  Finish(c, RetEntity(SubRef(pi, Len(ts[pi].subtasks))),
                            ts, task_execution_history)

RemoveSubtask ==
    \E id \in RemoveIdInputs, sub \in SubtaskIdInputs :
        LET out == RemoveSubtaskFrom(tasks, id, sub)
        IN  Finish([NoCall EXCEPT !.op = "remove_subtask", !.id = id,
                                  !.sub = sub],
                   out.ret, out.tasks, task_execution_history)

\* the end of a command that changed the collection: save_task_data and
\* the success panel; ts is the collection to store
CommandReturn(c, ts) ==
    \E sv \in SaveOutcomes :
        Finish([c EXCEPT !.save = sv, !.changed = TRUE],
               SaveTaskData(sv),
               IF sv = "ok" THEN ts ELSE tasks,
               task_execution_history)

\* remove_command: every run of the command loads the stored collection and
\* stores what it rebuilt; tasks is the collection the next call finds
RemoveCommand ==
    \E id \in RemoveCommandIds :
        IF ~RemoveCommandTry(tasks, id).ok
              \/ RemoveCommandTry(tasks, id).removed = 0
        THEN Finish([NoCall EXCEPT !.op = "remove_command", !.id = id],
                    RetExit(1), tasks, task_execution_history)
        ELSE CommandReturn([NoCall EXCEPT !.op = "remove_command", !.id = id],
                           RemoveCommandTry(tasks, id).tasks)

Next ==
    \/ SetStatus
    \/ FindNext
    \/ AddTask
    \/ AddSubtask
    \/ RemoveSubtask
    \/ RemoveCommand

Spec == Init /\ [][Next]_vars

-----------------------------------------------------------------------------
(* Vocabulary of the properties: what an identifier or a dependency         *)
(* reference denotes, stated from the labels of the entities (the id of a   *)
(* Task as text, "parentId.subId" for a Subtask) and not from the resolver. *)

TaskLabel(t) == IntToStr(t.id)
SubtaskLabel(t, st) == IntToStr(t.id) \o <<".">> \o IntToStr(st.id)

TasksNamed(ts, s) == {i \in 1..Len(ts) : TaskLabel(ts[i]) = s}

SubtasksNamed(ts, s) ==
    UNION { { <<i, j>> : j \in {k \in 1..Len(ts[i].subtasks) :
                                    SubtaskLabel(ts[i], ts[i].subtasks[k]) = s} } :
            i \in 1..Len(ts) }

NamesNothing(ts, s) == TasksNamed(ts, s) = {} /\ SubtasksNamed(ts, s) = {}

\* a dependency reference is satisfied
RefSatisfied(ts, d) ==
    IF d.isInt
    THEN \E i \in 1..Len(ts) : ts[i].id = d.n /\ ts[i].status = "done"
    ELSE \E ij \in SubtasksNamed(ts, d.s) :
             ts[ij[1]].subtasks[ij[2]].status = "done"

\* a task is eligible
Eligible(ts, i) ==
    /\ ts[i].status \notin {"done", "blocked"}
    /\ \A k \in 1..Len(ts[i].dependencies) :
           RefSatisfied(ts, ts[i].dependencies[k])

Rank(p) == IF p = "high" THEN 3 ELSE IF p = "medium" THEN 2 ELSE 1

\* a dependency reference resolves to an existing task or subtask
RefExists(ts, d) ==
    IF d.isInt THEN \E i \in 1..Len(ts) : ts[i].id = d.n
    ELSE ~NamesNothing(ts, d.s)

\* the subsequence of deps whose references exist
RECURSIVE Existing(_, _)
Existing(ts, deps) ==
    IF Len(deps) = 0 THEN <<>>
    ELSE (IF RefExists(ts, Head(deps)) THEN <<Head(deps)>> ELSE <<>>)
             \o Existing(ts, Tail(deps))

SameShape == Len(tasks) = Len(pre)
             /\ \A i \in 1..Len(pre) : Len(tasks[i].subtasks) = Len(pre[i].subtasks)

NothingChanged == tasks = pre /\ task_execution_history = preHistory

-----------------------------------------------------------------------------
(* Status state machine *)

C4_SameStatusIsNoOp ==
    (call.op = "set_task_status"
       /\ (\/ \E i \in TasksNamed(pre, call.id) : pre[i].status = call.status
           \/ \E ij \in SubtasksNamed(pre, call.id) :
                  pre[ij[1]].subtasks[ij[2]].status = call.status)) =>
        ret = RetBool(TRUE) /\ NothingChanged

C4_Witness ==
    /\ call.op = "set_task_status" /\ call.status = "done"
    /\ \E i \in TasksNamed(pre, call.id) :
           /\ pre[i].status = "done"
           /\ \E j \in 1..Len(pre[i].subtasks) :
                  pre[i].subtasks[j].status # "done"
    /\ ret = RetBool(TRUE)
    /\ NothingChanged

-----------------------------------------------------------------------------
(* Scheduler *)

\* C5: a task returned by find_next_task is neither done nor blocked and
\* every dependency reference it declares is satisfied.
C5_ReturnedTaskIsEligible ==
    (call.op = "find_next_task" /\ ret.kind = "task") =>
        /\ ret.ref.ti \in 1..Len(tasks)
        /\ Eligible(tasks, ret.ref.ti)

C5_Witness ==
    /\ call.op = "find_next_task" /\ ret.kind = "task"
    /\ \E k \in 1..Len(tasks[ret.ref.ti].dependencies) :
           ~tasks[ret.ref.ti].dependencies[k].isInt
    /\ \E k \in 1..Len(tasks[ret.ref.ti].dependencies) :
           tasks[ret.ref.ti].dependencies[k].isInt
    /\ Eligible(tasks, ret.ref.ti)

\* C6: the task find_next_task returns has the highest priority rank among
\* the eligible tasks and the smallest id among those of that rank.
C6_HighestPriorityThenSmallestId ==
    (call.op = "find_next_task" /\ ret.kind = "task") =>
        \A j \in 1..Len(tasks) :
            Eligible(tasks, j) =>
                \/ Rank(tasks[j].priority) < Rank(tasks[ret.ref.ti].priority)
                \/ /\ Rank(tasks[j].priority) = Rank(tasks[ret.ref.ti].priority)
                   /\ tasks[j].id >= tasks[ret.ref.ti].id

C6_Witness ==
    /\ call.op = "find_next_task" /\ ret.kind = "task"
    /\ \E j \in 1..Len(tasks) :
           /\ Eligible(tasks, j)
           /\ tasks[j].id < tasks[ret.ref.ti].id
           /\ Rank(tasks[j].priority) < Rank(tasks[ret.ref.ti].priority)

\* C7: find_next_task returns None exactly when no task is eligible.
C7_NoneIffNoEligible ==
    call.op = "find_next_task" =>
        /\ ret.kind \in {"none", "task"}
        /\ ret.kind = "none" <=> ~\E i \in 1..Len(tasks) : Eligible(tasks, i)

C7_Witness ==
    /\ call.op = "find_next_task" /\ ret.kind = "none"
    /\ Len(tasks) > 0
    /\ \A i \in 1..Len(tasks) : tasks[i].status = "blocked"

-----------------------------------------------------------------------------
(* Mutators *)

\* C8: add_new_task appends exactly one Task, with id 1 to an empty
\* collection and max(ids)+1 otherwise, returns it, and leaves the existing
\* tasks unchanged.
C8_AddTaskAppendsWithNextId ==
    call.op = "add_new_task" =>
        /\ ret.kind = "task"
        /\ Len(tasks) = Len(pre) + 1
        /\ ret.ref.ti = Len(tasks)
        /\ SubSeq(tasks, 1, Len(pre)) = pre
        /\ task_execution_history = preHistory
        /\ Len(pre) = 0 => tasks[Len(tasks)].id = 1
        /\ Len(pre) > 0 =>
               /\ \A i \in 1..Len(pre) : pre[i].id < tasks[Len(tasks)].id
               /\ \E i \in 1..Len(pre) : pre[i].id + 1 = tasks[Len(tasks)].id

C8_Witness ==
    /\ call.op = "add_new_task"
    /\ Len(pre) > 1
    /\ Len(tasks) = Len(pre) + 1
    /\ tasks[Len(tasks)].id = Len(tasks)

\* C9: the dependency list add_new_task and add_subtask store is the
\* subsequence of the requested list whose references name an existing task
\* or subtask, in the requested order.
C9_StoredDependenciesAreTheExistingOnes ==
    /\ call.op = "add_new_task" =>
           tasks[Len(tasks)].dependencies = Existing(pre, call.deps)
    /\ (call.op = "add_subtask" /\ ret.kind = "subtask") =>
           tasks[ret.ref.ti].subtasks[ret.ref.si].dependencies
               = Existing(pre, call.deps)

C9_Witness ==
    /\ call.op = "add_new_task"
    /\ Len(tasks[Len(tasks)].dependencies) > 1
    /\ Len(tasks[Len(tasks)].dependencies) < Len(call.deps)
    /\ \E k \in 1..Len(tasks[Len(tasks)].dependencies) :
           ~tasks[Len(tasks)].dependencies[k].isInt

\* C10: add_subtask with a parent id that no task has raises
\* ParentTaskNotFoundError and changes nothing.
C10_AbsentParentRaisesUnchanged ==
    (call.op = "add_subtask"
       /\ ~\E i \in 1..Len(pre) : pre[i].id = call.parent) =>
        ret = RetRaise("ParentTaskNotFoundError") /\ NothingChanged

C10_Witness ==
    /\ call.op = "add_subtask"
    /\ Len(pre) > 0
    /\ ~\E i \in 1..Len(pre) : pre[i].id = call.parent
    /\ ret = RetRaise("ParentTaskNotFoundError")
    /\ NothingChanged

\* C11: add_subtask on an existing parent appends exactly one Subtask at the
\* end of that parent's subtasks, with id 1 when there were none and
\* max(sibling ids)+1 otherwise; the subtasks of the other tasks are unchanged.
C11_AddSubtaskAppendsWithNextId ==
    (call.op = "add_subtask"
       /\ \E i \in 1..Len(pre) : pre[i].id = call.parent) =>
        /\ ret.kind = "subtask"
        /\ Len(tasks) = Len(pre)
        /\ pre[ret.ref.ti].id = call.parent
        /\ \A i \in 1..Len(pre) :
               i # ret.ref.ti => tasks[i].subtasks = pre[i].subtasks
        /\ LET old == pre[ret.ref.ti].subtasks
               new == tasks[ret.ref.ti].subtasks
           IN  /\ Len(new) = Len(old) + 1
               /\ ret.ref.si = Len(new)
               /\ SubSeq(new, 1, Len(old)) = old
               /\ Len(old) = 0 => new[Len(new)].id = 1
               /\ Len(old) > 0 =>
                      /\ \A j \in 1..Len(old) : old[j].id < new[Len(new)].id
                      /\ \E j \in 1..Len(old) : old[j].id + 1 = new[Len(new)].id

C11_Witness ==
    /\ call.op = "add_subtask" /\ ret.kind = "subtask"
    /\ Len(pre[ret.ref.ti].subtasks) = 2
    /\ Len(tasks[ret.ref.ti].subtasks) = 3
    /\ tasks[ret.ref.ti].subtasks[3].id = 3

\* C12: remove_subtask returns True iff the id names a task that owns a
\* subtask with the given subtask id; then exactly the subtasks with that id
\* leave that parent, the others keep their order; otherwise the collection
\* is unchanged.
C12_RemoveSubtaskExactly ==
    call.op = "remove_subtask" =>
        LET owners == {i \in TasksNamed(pre, call.id) :
                          \E j \in 1..Len(pre[i].subtasks) :
                              pre[i].subtasks[j].id = call.sub}
        IN  /\ ret = RetBool(TRUE) <=> owners # {}
            /\ task_execution_history = preHistory
            /\ owners = {} => tasks = pre
            /\ \A i \in owners :
                   /\ Len(tasks) = Len(pre)
                   /\ \A k \in 1..Len(pre) : k # i => tasks[k] = pre[k]
                   /\ tasks[i] = [pre[i] EXCEPT !.subtasks = tasks[i].subtasks]
                   /\ \A j \in 1..Len(tasks[i].subtasks) :
                          tasks[i].subtasks[j].id # call.sub
                   /\ \E f \in [1..Len(tasks[i].subtasks) -> 1..Len(pre[i].subtasks)] :
                          /\ \A a, b \in DOMAIN f : a < b => f[a] < f[b]
                          /\ \A a \in DOMAIN f :
                                 tasks[i].subtasks[a] = pre[i].subtasks[f[a]]
                          /\ \A j \in 1..Len(pre[i].subtasks) :
                                 pre[i].subtasks[j].id # call.sub =>
                                     \E a \in DOMAIN f : f[a] = j

C12_Witness ==
    /\ call.op = "remove_subtask" /\ ret = RetBool(TRUE)
    /\ \E i \in TasksNamed(pre, call.id) :
           /\ Len(pre[i].subtasks) = 2
           /\ Len(tasks[i].subtasks) = 1
           /\ tasks[i].subtasks[1] = pre[i].subtasks[2]

-----------------------------------------------------------------------------
(* Identifier resolver: get_task_by_id applied to every short string *)

\* Bound on the length of the identifier strings handed to the resolver.
MaxIdLen == 3

\* the characters of those strings: digits of ids that exist and of ids that
\* do not, the separator, a letter, a sign and a blank
IdAlphabet == {"0", "1", "3", "9", ".", "x", "+", " "}

ResolveInputs == UNION {[1..k -> IdAlphabet] : k \in 0..MaxIdLen}

\* One call per behaviour: the resolver reads the collection and changes
\* nothing, so a later call finds what the first one found.
Resolve ==
    /\ call = NoCall
    /\ \E s \in ResolveInputs :
           LET r == GetTaskById(tasks, s)
           IN  Finish([NoCall EXCEPT !.op = "get_task_by_id", !.id = s],
                      IF r.kind = "none" THEN RetNone ELSE RetEntity(r),
                      tasks, task_execution_history)

NextResolve == Resolve

SpecResolve == Init /\ [][NextResolve]_vars

\* number of separators in s
DotCount(s) == Cardinality({i \in 1..Len(s) : s[i] = "."})

\* the text before and after the only separator of s
BeforeDot(s) == SubSeq(s, 1, (CHOOSE i \in 1..Len(s) : s[i] = ".") - 1)
AfterDot(s) == SubSeq(s, (CHOOSE i \in 1..Len(s) : s[i] = ".") + 1, Len(s))

\* s is text an integer can be read from
IntText(s) == Len(s) > 0 /\ PyInt(s).ok

\* the entities the identifier s denotes: the tasks whose id is the integer
\* s reads as, or the subtasks with the second integer as id under the tasks
\* with the first; nothing when s is not of either form
Denoted(ts, s) ==
    IF DotCount(s) = 0 /\ IntText(s)
    THEN {TaskRef(i) : i \in {k \in 1..Len(ts) : ts[k].id = PyInt(s).v}}
    ELSE IF DotCount(s) = 1 /\ IntText(BeforeDot(s)) /\ IntText(AfterDot(s))
    THEN UNION {{SubRef(i, j) :
                    j \in {k \in 1..Len(ts[i].subtasks) :
                              ts[i].subtasks[k].id = PyInt(AfterDot(s)).v}} :
                i \in {k \in 1..Len(ts) : ts[k].id = PyInt(BeforeDot(s)).v}}
    ELSE {}

\* C13: get_task_by_id never raises; the label "N" of an existing task and
\* the label "N.M" of an existing subtask give exactly that entity; the empty
\* string, text that is not an integer, more than one separator, a missing
\* part, an absent parent and an absent subtask all give None; every other
\* input reads as the integers of an existing entity and gives that entity.
C13_ResolveExactOrNone ==
    call.op = "get_task_by_id" =>
        /\ ret.kind \in {"none", "task", "subtask"}
        /\ \A i \in TasksNamed(tasks, call.id) : ret = RetEntity(TaskRef(i))
        /\ \A ij \in SubtasksNamed(tasks, call.id) :
               ret = RetEntity(SubRef(ij[1], ij[2]))
        /\ Len(call.id) = 0 => ret = RetNone
        /\ DotCount(call.id) > 1 => ret = RetNone
        /\ (DotCount(call.id) = 0 /\ ~IntText(call.id)) => ret = RetNone
        /\ (DotCount(call.id) = 1
              /\ (~IntText(BeforeDot(call.id)) \/ ~IntText(AfterDot(call.id))))
               => ret = RetNone
        /\ Denoted(tasks, call.id) = {} => ret = RetNone
        /\ Denoted(tasks, call.id) # {} =>
               /\ ret.kind # "none"
               /\ ret = RetEntity(ret.ref)
               /\ ret.ref \in Denoted(tasks, call.id)
        /\ NothingChanged

C13_Witness ==
    /\ call.op = "get_task_by_id"
    /\ call.id = Str3("3", ".", "1")
    /\ ret = RetEntity(SubRef(3, 1))
    /\ tasks[3].subtasks[1].id = 1

-----------------------------------------------------------------------------
(* find_circular_dependencies: the dependency graph and its traversal *)

\* the node labels of the graph, a task before its subtasks, in list order
RECURSIVE SubtaskLabels(_, _)
SubtaskLabels(t, j) ==
    IF j > Len(t.subtasks) THEN <<>>
    ELSE <<IntToStr(t.id) \o <<".">> \o IntToStr(t.subtasks[j].id)>>
             \o SubtaskLabels(t, j + 1)

RECURSIVE NodeLabels(_)
NodeLabels(ts) ==
    IF Len(ts) = 0 THEN <<>>
    ELSE <<IntToStr(Head(ts).id)>> \o SubtaskLabels(Head(ts), 1)
             \o NodeLabels(Tail(ts))

\* the dependencies declared by the node with label n
RECURSIVE DepsOfNode(_, _)
DepsOfNode(ts, n) ==
    IF Len(ts) = 0 THEN <<>>
    ELSE LET t == Head(ts)
             j == {k \in 1..Len(t.subtasks) :
                      IntToStr(t.id) \o <<".">> \o IntToStr(t.subtasks[k].id) = n}
         IN  IF IntToStr(t.id) = n THEN t.dependencies
             ELSE IF j # {} THEN t.subtasks[CHOOSE k \in j : TRUE].dependencies
             ELSE DepsOfNode(Tail(ts), n)

\* the referenced node exists in the collection
NodeExists(ts, n) ==
    \E i \in 1..Len(NodeLabels(ts)) : NodeLabels(ts)[i] = n

\* the edges leaving n: its references, as labels, to nodes that exist
EdgesOf(ts, n) ==
    LET deps == DepsOfNode(ts, n)
        RECURSIVE Keep(_)
        Keep(k) == IF k > Len(deps) THEN <<>>
                   ELSE (IF NodeExists(ts, DepToStr(deps[k]))
                         THEN <<DepToStr(deps[k])>> ELSE <<>>) \o Keep(k + 1)
    IN  Keep(1)

\* OnStack that overlooks the node on top of the stack
OnStackBelowTop(path, n) ==
    \E i \in 1..(Len(path) - 1) : path[i] = n

\* n is on the current-path stack
OnStack(path, n) ==
    \E i \in 1..Len(path) : path[i] = n

\* CyclePath that returns the whole stack
CyclePathWhole(path, n) ==
    path \o <<n>>

\* the path from the place where the cycle closes back to itself
CyclePath(path, n) ==
    SubSeq(path, CHOOSE i \in 1..Len(path) : path[i] = n, Len(path)) \o <<n>>

\* the depth-first visit of node n, path being the stack above it: the
\* cycle found (<<>> for none) and the nodes visited
RECURSIVE Dfs(_, _, _, _)
RECURSIVE DfsEdges(_, _, _, _)
Dfs(ts, n, path, visited) ==
    DfsEdges(ts, EdgesOf(ts, n), Append(path, n), visited \cup {n})

DfsEdges(ts, es, path, visited) ==
    IF Len(es) = 0 THEN [cycle |-> <<>>, visited |-> visited]
    ELSE IF Head(es) \notin visited
    THEN LET r == Dfs(ts, Head(es), path, visited)
         IN  IF Len(r.cycle) > 0 THEN r
             ELSE DfsEdges(ts, Tail(es), path, r.visited)
    ELSE IF OnStack(path, Head(es))
    THEN [cycle |-> CyclePath(path, Head(es)), visited |-> visited]
    ELSE DfsEdges(ts, Tail(es), path, visited)

\* the loop over all nodes
RECURSIVE DfsAll(_, _, _)
DfsAll(ts, nodes, visited) ==
    IF Len(nodes) = 0 THEN <<>>
    ELSE IF Head(nodes) \in visited THEN DfsAll(ts, Tail(nodes), visited)
    ELSE LET r == Dfs(ts, Head(nodes), <<>>, visited)
         IN  IF Len(r.cycle) > 0 THEN r.cycle
             ELSE DfsAll(ts, Tail(nodes), r.visited)

\* find_circular_dependencies(tasks): the cycle path, <<>> for None
FindCircularDependencies(ts) == DfsAll(ts, NodeLabels(ts), {})

\* the collections of the cycle tests: tasks 1, 2 and 3, task 2 owning the
\* subtask 2.1, with the dependency list of every node left open
cycle_tasks(d1, d2, d21, d3) ==
    << Task(1, "pending", DEFAULT_PRIORITY, d1, <<>>),
       Task(2, "pending", DEFAULT_PRIORITY, d2,
            << Subtask(1, "pending", d21, 2) >>),
       Task(3, "pending", DEFAULT_PRIORITY, d3, <<>>) >>

\* the dependency lists of those tests: references to every node, to an
\* absent node, and a list of two
CycleDepLists ==
    { <<>>, <<DInt(1)>>, <<DInt(2)>>, <<DInt(3)>>,
      <<DStr(Str3("2", ".", "1"))>>, <<DInt(99)>>, <<DInt(1), DInt(3)>> }

CycleCollections ==
    {<<>>} \cup {cycle_tasks(d1, d2, d21, d3) :
                    d1 \in CycleDepLists, d2 \in CycleDepLists,
                    d21 \in CycleDepLists, d3 \in CycleDepLists}

InitCycle ==
    /\ tasks \in CycleCollections
    /\ task_execution_history = <<>>
    /\ call = NoCall
    /\ ret = RetNone
    /\ pre = tasks
    /\ preHistory = <<>>
    /\ nops = 0
    /\ frames = <<>>
    /\ threads = NoThreads

FindCycle ==
    LET cycle == FindCircularDependencies(tasks)
    IN  Finish([NoCall EXCEPT !.op = "find_circular_dependencies"],
               IF Len(cycle) = 0 THEN RetNone ELSE RetCycle(cycle),
               tasks, task_execution_history)

NextCycle == FindCycle

SpecCycle == InitCycle /\ [][NextCycle]_vars

\* The dependency graph as the properties see it: the labels of all tasks
\* and subtasks, and an edge for every declared reference to such a label.
GraphNodes(ts) ==
    {TaskLabel(ts[i]) : i \in 1..Len(ts)}
    \cup UNION {{SubtaskLabel(ts[i], ts[i].subtasks[j]) :
                    j \in 1..Len(ts[i].subtasks)} : i \in 1..Len(ts)}

Declares(ts, a, b) ==
    \/ \E i \in TasksNamed(ts, a) :
           \E k \in 1..Len(ts[i].dependencies) :
               DepToStr(ts[i].dependencies[k]) = b
    \/ \E ij \in SubtasksNamed(ts, a) :
           \E k \in 1..Len(ts[ij[1]].subtasks[ij[2]].dependencies) :
               DepToStr(ts[ij[1]].subtasks[ij[2]].dependencies[k]) = b

GraphEdges(ts) ==
    {e \in GraphNodes(ts) \X GraphNodes(ts) : Declares(ts, e[1], e[2])}

\* the pairs joined by a path of one edge or more
RECURSIVE Paths(_, _, _)
Paths(E, R, n) ==
    IF n = 0 THEN R
    ELSE LET S == R \cup UNION {{<<p[1], q[2]>> : q \in {e \in E : e[1] = p[2]}} :
                                   p \in R}
         IN  IF S = R THEN R ELSE Paths(E, S, n - 1)

Reach(ts) == Paths(GraphEdges(ts), GraphEdges(ts), Cardinality(GraphNodes(ts)))

\* the nodes that lie on some cycle
OnCycle(ts) ==
    LET R == Reach(ts)
    IN  {n \in GraphNodes(ts) : <<n, n>> \in R}

\* C14: find_circular_dependencies returns None iff the graph of tasks and
\* subtasks, with the declared references to existing nodes as edges, has no
\* cycle; the empty collection and references to absent nodes included.
C14_NoneIffAcyclic ==
    call.op = "find_circular_dependencies" =>
        /\ ret.kind \in {"none", "cycle"}
        /\ ret = RetNone <=> OnCycle(tasks) = {}
        /\ NothingChanged

C14_Witness ==
    /\ call.op = "find_circular_dependencies"
    /\ ret = RetNone
    /\ \E i \in 1..Len(tasks) : \E k \in 1..Len(tasks[i].dependencies) :
           DepToStr(tasks[i].dependencies[k]) \notin GraphNodes(tasks)
    /\ Cardinality(GraphEdges(tasks)) >= 3

\* C15: when the graph has a cycle, the returned sequence is not empty and
\* walks one actual cycle: it starts and ends at the same node, every step
\* is an edge, no node but the closing one occurs twice (so nothing that only
\* leads into the cycle is in it), and when a self-dependent node is the
\* only node on a cycle its label is in the sequence.
C15_WitnessIsOneCycle ==
    (call.op = "find_circular_dependencies" /\ OnCycle(tasks) # {}) =>
        /\ ret.kind = "cycle"
        /\ Len(ret.path) >= 2
        /\ ret.path[1] = ret.path[Len(ret.path)]
        /\ \A k \in 1..(Len(ret.path) - 1) :
               <<ret.path[k], ret.path[k + 1]>> \in GraphEdges(tasks)
        /\ \A k, m \in 1..(Len(ret.path) - 1) :
               k # m => ret.path[k] # ret.path[m]
        /\ \A k \in 1..Len(ret.path) : ret.path[k] \in OnCycle(tasks)
        /\ \A n \in GraphNodes(tasks) :
               (<<n, n>> \in GraphEdges(tasks) /\ OnCycle(tasks) = {n}) =>
                   \E k \in 1..Len(ret.path) : ret.path[k] = n

C15_Witness ==
    /\ call.op = "find_circular_dependencies"
    /\ ret.kind = "cycle"
    /\ Len(ret.path) = 4
    /\ ret.path[1] = Str3("2", ".", "1")
    /\ OnCycle(tasks) # GraphNodes(tasks)
    /\ \E n \in GraphNodes(tasks) \ OnCycle(tasks) :
           \E m \in OnCycle(tasks) : <<n, m>> \in GraphEdges(tasks)

-----------------------------------------------------------------------------
(* Invariants of the collection and the frame of a removal *)

\* task ids are pairwise distinct, subtask ids are pairwise distinct within
\* each parent
UniqueIds(ts) ==
    /\ \A i, k \in 1..Len(ts) : i # k => ts[i].id # ts[k].id
    /\ \A i \in 1..Len(ts) :
           \A j, m \in 1..Len(ts[i].subtasks) :
               j # m => ts[i].subtasks[j].id # ts[i].subtasks[m].id

\* every subtask refers back to the task that owns it
ParentsMatch(ts) ==
    \A i \in 1..Len(ts) :
        \A j \in 1..Len(ts[i].subtasks) :
            ts[i].subtasks[j].parent_task_id = ts[i].id

DropAt(seq, k) == SubSeq(seq, 1, k - 1) \o SubSeq(seq, k + 1, Len(seq))

\* C19: a removal that went through deletes exactly the named entity:
\* remove_command with the label of a task takes out that task with its
\* subtasks, remove_command with the label of a subtask and remove_subtask
\* take out that subtask; every other task and subtask is as before, the
\* dependency lists that refer to the removed id included.
C19_RemovalLeavesTheRestAlone ==
    /\ (call.op = "remove_command" /\ ret = RetExit(0) /\ call.save = "ok") =>
           /\ \A i \in TasksNamed(pre, call.id) : tasks = DropAt(pre, i)
           /\ \A ij \in SubtasksNamed(pre, call.id) :
                  tasks = [pre EXCEPT ![ij[1]].subtasks = DropAt(@, ij[2])]
           /\ ~NamesNothing(pre, call.id)
    /\ (call.op = "remove_command" /\ ~(ret = RetExit(0) /\ call.save = "ok")) =>
           tasks = pre
    /\ (call.op = "remove_subtask" /\ ret = RetBool(TRUE)) =>
           \E i \in TasksNamed(pre, call.id) :
               \E j \in 1..Len(pre[i].subtasks) :
                   /\ pre[i].subtasks[j].id = call.sub
                   /\ tasks = [pre EXCEPT ![i].subtasks = DropAt(@, j)]
    /\ call.op \in {"remove_command", "remove_subtask"} =>
           task_execution_history = preHistory

C19_Witness ==
    /\ call.op = "remove_command" /\ ret = RetExit(0) /\ call.save = "ok"
    /\ call.id = Str1("1")
    /\ Len(tasks) = Len(pre) - 1
    /\ \A i \in 1..Len(tasks) : tasks[i].id # 1
    /\ \E i \in 1..Len(tasks) :
           \E k \in 1..Len(tasks[i].dependencies) :
               tasks[i].dependencies[k] = DInt(1)
    /\ \E i \in 1..Len(tasks) :
           \E j \in 1..Len(tasks[i].subtasks) :
               \E k \in 1..Len(tasks[i].subtasks[j].dependencies) :
                   tasks[i].subtasks[j].dependencies[k] = DInt(1)

-----------------------------------------------------------------------------
(* Exceptions *)

\* C18: add_subtask with an absent parent is the only core call that
\* raises: get_task_by_id, find_next_task, set_task_status and remove_subtask
\* always end with a None or boolean result, also when set_task_status
\* completes the last open subtask of a task and when remove_subtask is given
\* the composite id of a subtask.
C18_OnlyAddSubtaskRaises ==
    /\ call.op \in {"get_task_by_id", "find_next_task", "set_task_status",
                    "remove_subtask"} => ret.kind # "raise"
    /\ (call.op = "add_subtask" /\ ret.kind = "raise") =>
           \A i \in 1..Len(pre) : pre[i].id # call.parent

-----------------------------------------------------------------------------
(* The callers that save: the tools of mcp_server.py and the commands of    *)
(* cli/main.py. tasks is the collection the next call works on: tasks_list  *)
(* of the server process, the stored collection for a command.              *)

ToolIdInputs == {Str1("3"), Str3("3", ".", "2"), Str1("9")}

ToolStatusInputs == {"done", "todo"}

\* the --parent option of the add command: not given, or text
ParentOptionInputs == {<<>>, Str1("1"), Str1("9"), Str1("x")}

\* the end of a tool: _save_current_tasks() after a True result or a new
\* entity; it swallows what save_tasks raises and returns nothing, so the
\* tool returns what the core returned
ToolReturn(c, r, ts, hist) ==
    IF r.kind \in {"raise", "none"} \/ r = RetBool(FALSE)
    THEN Finish([c EXCEPT !.changed = ts # tasks], r, ts, hist)
    ELSE \E sv \in SaveOutcomes :
             Finish([c EXCEPT !.save = sv, !.changed = ts # tasks],
                    r, ts, hist)

McpSetTaskStatus ==
    \E id \in ToolIdInputs, st \in ToolStatusInputs :
        ToolReturn([NoCall EXCEPT !.op = "mcp.set_task_status", !.id = id,
                                  !.status = st],
                   SetTaskStatus(tasks, task_execution_history, id, st).ret,
                   SetTaskStatus(tasks, task_execution_history, id, st).tasks,
                   SetTaskStatus(tasks, task_execution_history, id, st).history)

McpAddTask ==
    \E p \in PriorityInputs :
        ToolReturn([NoCall EXCEPT !.op = "mcp.add_task", !.priority = p],
                   RetEntity(TaskRef(Len(tasks) + 1)),
                   AddNewTask(tasks, p, <<>>), task_execution_history)

\* the except branches turn ParentTaskNotFoundError into a None result
McpAddSubtask ==
    \E parent \in ParentIdInputs :
        ToolReturn([NoCall EXCEPT !.op = "mcp.add_subtask", !.parent = parent,
                                  !.priority = DEFAULT_PRIORITY],
                   IF FindParent(tasks, parent) = 0 THEN RetNone
                   ELSE RetEntity(SubRef(FindParent(tasks, parent),
                            Len(tasks[FindParent(tasks, parent)].subtasks) + 1)),
                   IF FindParent(tasks, parent) = 0 THEN tasks
                   ELSE AddSubtaskTo(tasks, FindParent(tasks, parent), parent, <<>>),
                   task_execution_history)

McpRemoveSubtask ==
    \E id \in RemoveIdInputs, sub \in SubtaskIdInputs :
        ToolReturn([NoCall EXCEPT !.op = "mcp.remove_subtask", !.id = id,
                                  !.sub = sub],
                   RemoveSubtaskFrom(tasks, id, sub).ret,
                   RemoveSubtaskFrom(tasks, id, sub).tasks,
                   task_execution_history)

\* set_status_command after its checks: r is what set_task_status gave and
\* ts the collection it left in the memory of the command
StatusCommandReturn(c, r, ts) ==
    IF r = RetBool(TRUE) THEN CommandReturn(c, ts)
    ELSE IF r.kind = "raise"
    THEN Finish(c, r, tasks, task_execution_history)
    ELSE Finish(c, RetExit(1), tasks, task_execution_history)

\* set_status_command; the history of the command's process ends with it
StatusCommand ==
    \E id \in ToolIdInputs, st \in ToolStatusInputs :
        IF st \notin Status \/ GetTaskById(tasks, id).kind = "none"
        THEN Finish([NoCall EXCEPT !.op = "status_command", !.id = id,
                                   !.status = st],
                    RetExit(1), tasks, task_execution_history)
        ELSE IF StatusOf(tasks, GetTaskById(tasks, id)) = st
        THEN Finish([NoCall EXCEPT !.op = "status_command", !.id = id,
                                   !.status = st],
                    RetExit(0), tasks, task_execution_history)
        ELSE StatusCommandReturn(
                 [NoCall EXCEPT !.op = "status_command", !.id = id,
                                !.status = st],
                 SetTaskStatus(tasks, task_execution_history, id, st).ret,
                 SetTaskStatus(tasks, task_execution_history, id, st).tasks)

\* add_command: a subtask when --parent is given, a task otherwise; the
\* dependencies are always []
AddCommand ==
    \E parent_id \in ParentOptionInputs, p \in PriorityInputs :
        IF Len(parent_id) = 0
        THEN CommandReturn([NoCall EXCEPT !.op = "add_command",
                                          !.id = parent_id, !.priority = p],
                           AddNewTask(tasks, p, <<>>))
        ELSE IF ~PyInt(parent_id).ok
                \/ FindParent(tasks, PyInt(parent_id).v) = 0
        THEN Finish([NoCall EXCEPT !.op = "add_command", !.id = parent_id,
                                   !.priority = p],
                    RetExit(1), tasks, task_execution_history)
        ELSE CommandReturn([NoCall EXCEPT !.op = "add_command",
                                          !.id = parent_id, !.priority = p],
                           AddSubtaskTo(tasks,
                                        FindParent(tasks, PyInt(parent_id).v),
                                        PyInt(parent_id).v, <<>>))

\* the collections the server or a command starts from: none stored, the
\* sample with subtask 3.1 done, the sample with everything pending
ToolCollections ==
    { <<>>,
      sample_tasks_list("done", "pending", "pending", "pending", "done", "pending"),
      sample_tasks_list("pending", "pending", "pending", "pending", "pending", "pending") }

InitTools ==
    /\ tasks \in ToolCollections
    /\ task_execution_history = <<>>
    /\ call = NoCall
    /\ ret = RetNone
    /\ pre = tasks
    /\ preHistory = <<>>
    /\ nops = 0
    /\ frames = <<>>
    /\ threads = NoThreads

NextTools ==
    \/ McpSetTaskStatus
    \/ McpAddTask
    \/ McpAddSubtask
    \/ McpRemoveSubtask
    \/ StatusCommand
    \/ AddCommand
    \/ RemoveCommand

SpecTools == InitTools /\ [][NextTools]_vars

\* the caller is told that the call succeeded: True, the new entity, or
\* exit code 0
ReportsSuccess ==
    \/ ret = RetBool(TRUE)
    \/ ret.kind \in {"task", "subtask"}
    \/ ret = RetExit(0)

\* C20: when save_tasks fails (returns False or raises) after the tool or
\* command has changed the collection, the tool or command reports failure,
\* never success.
C20_SaveFailureIsReported ==
    (call.changed /\ call.save \in {"false", "raise"}) => ~ReportsSuccess

-----------------------------------------------------------------------------
(* Runs of several calls: the core called again and again on one           *)
(* collection, by one process or by one command after the other.           *)

\* Bound on the number of state-changing calls in such a run.
MaxSeqOps == 3

\* the sample collection, and the collections of the dependency tests in
\* which something refers to the task or the subtask with the greatest id
SeqCollections ==
    { sample_tasks_list("done", "pending", "pending", "pending", "done", "pending"),
      sample_tasks_list("done", "done", "done", "done", "done", "done"),
      cycle_tasks(<<>>, <<>>, <<DInt(3)>>, <<>>),
      cycle_tasks(<<>>, <<>>, <<>>, <<DStr(Str3("2", ".", "1"))>>) }

SeqIdInputs ==
    { Str1("2"), Str1("3"), Str3("2", ".", "1"), Str3("3", ".", "2") }

SeqStatusInputs == {"done", "review"}

InitSeq ==
    /\ tasks \in SeqCollections
    /\ task_execution_history = <<>>
    /\ call = NoCall
    /\ ret = RetNone
    /\ pre = tasks
    /\ preHistory = <<>>
    /\ nops = 0
    /\ frames = <<>>
    /\ threads = NoThreads

SeqSetStatus ==
    \E id \in SeqIdInputs, st \in SeqStatusInputs :
        FinishWithin(MaxSeqOps,
                     [NoCall EXCEPT !.op = "set_task_status", !.id = id,
                                    !.status = st],
                     SetTaskStatus(tasks, task_execution_history, id, st).ret,
                     SetTaskStatus(tasks, task_execution_history, id, st).tasks,
                     SetTaskStatus(tasks, task_execution_history, id, st).history)

SeqAddTask ==
    FinishWithin(MaxSeqOps,
                 [NoCall EXCEPT !.op = "add_new_task",
                                !.priority = DEFAULT_PRIORITY],
                 RetEntity(TaskRef(Len(tasks) + 1)),
                 AddNewTask(tasks, DEFAULT_PRIORITY, <<>>),
                 task_execution_history)

SeqAddSubtask ==
    \E parent \in {2, 3} :
        IF FindParent(tasks, parent) = 0
        THEN FinishWithin(MaxSeqOps,
                          [NoCall EXCEPT !.op = "add_subtask", !.parent = parent,
                                         !.priority = DEFAULT_PRIORITY],
                          RetRaise("ParentTaskNotFoundError"),
                          tasks, task_execution_history)
        ELSE FinishWithin(MaxSeqOps,
                          [NoCall EXCEPT !.op = "add_subtask", !.parent = parent,
                                         !.priority = DEFAULT_PRIORITY],
                          RetEntity(SubRef(FindParent(tasks, parent),
                              Len(tasks[FindParent(tasks, parent)].subtasks) + 1)),
                          AddSubtaskTo(tasks, FindParent(tasks, parent), parent, <<>>),
                          task_execution_history)

SeqRemoveSubtask ==
    \E id \in {Str1("2"), Str1("3")}, sub \in {1, 2} :
        FinishWithin(MaxSeqOps,
                     [NoCall EXCEPT !.op = "remove_subtask", !.id = id,
                                    !.sub = sub],
                     RemoveSubtaskFrom(tasks, id, sub).ret,
                     RemoveSubtaskFrom(tasks, id, sub).tasks,
                     task_execution_history)

\* remove_command with a save that goes through
SeqRemoveCommand ==
    \E id \in {Str1("3"), Str1("4")} :
        IF RemoveCommandTry(tasks, id).removed = 0
        THEN FinishWithin(MaxSeqOps,
                          [NoCall EXCEPT !.op = "remove_command", !.id = id],
                          RetExit(1), tasks, task_execution_history)
        ELSE FinishWithin(MaxSeqOps,
                          [NoCall EXCEPT !.op = "remove_command", !.id = id,
                                         !.save = "ok", !.changed = TRUE],
                          SaveTaskData("ok"),
                          RemoveCommandTry(tasks, id).tasks,
                          task_execution_history)

NextSeq ==
    \/ SeqSetStatus
    \/ FindNext
    \/ SeqAddTask
    \/ SeqAddSubtask
    \/ SeqRemoveSubtask
    \/ SeqRemoveCommand

SpecSeq == InitSeq /\ [][NextSeq]_vars

\* C21: the history after every call has the history before the call as a
\* prefix, so no record is ever removed, reordered or rewritten, and no call
\* but set_task_status extends it.
C21_HistoryAppendOnly ==
    /\ Len(preHistory) <= Len(task_execution_history)
    /\ SubSeq(task_execution_history, 1, Len(preHistory)) = preHistory
    /\ call.op # "set_task_status" => task_execution_history = preHistory

C21_Witness ==
    /\ call.op = "set_task_status"
    /\ Len(preHistory) = 1
    /\ Len(task_execution_history) = 2
    /\ task_execution_history[1] = preHistory[1]
    /\ task_execution_history[2] # preHistory[1]

\* the status the entity named s has in ts
StatusNamed(ts, s) ==
    {ts[i].status : i \in TasksNamed(ts, s)}
    \cup {ts[ij[1]].subtasks[ij[2]].status : ij \in SubtasksNamed(ts, s)}

\* C25: a set_task_status call that changes the status of its target appends
\* exactly one record, with the id string of the call, the status the target
\* had and the new status; a call that does not change its target appends
\* nothing, and neither do the changes rule A and rule B make to other
\* entities, so the history is never longer than the number of calls that
\* changed something.
C25_OneRecordPerChange ==
    /\ call.op = "set_task_status" =>
           \A old \in StatusNamed(pre, call.id) :
               IF call.status \in Status /\ old # call.status
               THEN /\ task_execution_history
                          = Append(preHistory,
                                   [task_id |-> call.id, old_status |-> old,
                                    new_status |-> call.status, success |-> TRUE])
                    /\ StatusNamed(tasks, call.id) = {call.status}
               ELSE task_execution_history = preHistory
    /\ (call.op = "set_task_status" /\ StatusNamed(pre, call.id) = {}) =>
           task_execution_history = preHistory
    /\ Len(task_execution_history) <= nops

C25_Witness ==
    /\ call.op = "set_task_status" /\ call.status = "done"
    /\ \E ij \in SubtasksNamed(pre, call.id) :
           /\ pre[ij[1]].status = "pending"
           /\ tasks[ij[1]].status = "done"
    /\ Len(preHistory) = 1
    /\ Len(task_execution_history) = 2
    /\ task_execution_history[2].task_id = call.id
    /\ nops = 3

\* C26: a set_task_status call with one of the five statuses other than
\* done, on an entity that exists, succeeds whatever status the entity has
\* (done included) and changes the status of that entity only: the subtasks
\* of a done Task that is set back stay done, and the parent of a subtask
\* that is set back stays done.
C26_NotDoneChangesTargetOnly ==
    (call.op = "set_task_status" /\ call.status \in Status \ {"done"}) =>
        /\ ~NamesNothing(pre, call.id) => ret = RetBool(TRUE)
        /\ \A i \in TasksNamed(pre, call.id) :
               tasks = [pre EXCEPT ![i].status = call.status]
        /\ \A ij \in SubtasksNamed(pre, call.id) :
               tasks = [pre EXCEPT ![ij[1]].subtasks[ij[2]].status = call.status]

C26_Witness ==
    /\ call.op = "set_task_status" /\ call.status = "review"
    /\ ret = RetBool(TRUE)
    /\ \E i \in TasksNamed(pre, call.id) :
           /\ pre[i].status = "done"
           /\ tasks[i].status = "review"
           /\ Len(tasks[i].subtasks) = 2
           /\ \A j \in 1..Len(tasks[i].subtasks) :
                  tasks[i].subtasks[j].status = "done"

-----------------------------------------------------------------------------
(* The read operations *)

\* a returned report: the rows of the table
RetReport(rows) ==
    [kind |-> "report", ok |-> TRUE, ref |-> NoRef, exc |-> "", path |-> rows]

\* get_status_emoji and get_priority_emoji, by the name of the sign
StatusEmoji(st) ==
    CASE st = "done" -> "check" [] st = "pending" -> "white"
      [] st = "in-progress" -> "hourglass" [] st = "blocked" -> "no-entry"
      [] st = "deferred" -> "calendar" [] st = "review" -> "glass"
      [] OTHER -> ""

PriorityEmoji(p) ==
    CASE p = "high" -> "fire" [] p = "medium" -> "star" [] p = "low" -> "white"
      [] OTHER -> ""

\* ", ".join(map(str, dependencies))
RECURSIVE JoinDeps(_)
JoinDeps(deps) ==
    IF Len(deps) = 0 THEN <<>>
    ELSE IF Len(deps) = 1 THEN DepToStr(deps[1])
    ELSE DepToStr(deps[1]) \o <<",", " ">> \o JoinDeps(Tail(deps))

\* the rows generate_markdown_table_tasks_report writes below the header: a
\* row for a task, followed by a row for each of its subtasks (the titles
\* and the time stamp of the report are left out)
RECURSIVE SubtaskRows(_, _)
SubtaskRows(t, j) ==
    IF j > Len(t.subtasks) THEN <<>>
    ELSE << [id |-> IntToStr(t.id) \o <<".">> \o IntToStr(t.subtasks[j].id),
             status |-> StatusEmoji(t.subtasks[j].status),
             priority |-> PriorityEmoji(t.subtasks[j].priority),
             dependencies |-> JoinDeps(t.subtasks[j].dependencies),
             subtasks |-> 0] >>
         \o SubtaskRows(t, j + 1)

RECURSIVE ReportRows(_)
ReportRows(ts) ==
    IF Len(ts) = 0 THEN <<>>
    ELSE << [id |-> <<"*", "*">> \o IntToStr(Head(ts).id) \o <<"*", "*">>,
             status |-> StatusEmoji(Head(ts).status),
             priority |-> PriorityEmoji(Head(ts).priority),
             dependencies |-> JoinDeps(Head(ts).dependencies),
             subtasks |-> Len(Head(ts).subtasks)] >>
         \o SubtaskRows(Head(ts), 1) \o ReportRows(Tail(ts))

\* LeftByRead after a sort of the collection itself by the key of the
\* scheduler
LeftSortedByKey(ts) ==
    CHOOSE s \in [1..Len(ts) -> {ts[i] : i \in 1..Len(ts)}] :
        /\ \A i \in 1..Len(ts) : \E k \in 1..Len(ts) : s[k] = ts[i]
        /\ \A i, k \in 1..Len(ts) : i < k => ~KeyLess(s, k, i)

\* the collection a read operation leaves: get_task_by_id, find_next_task
\* and the report read attributes, and the one list find_next_task sorts is
\* the list of eligible tasks it built
LeftByRead(ts) ==
    ts

ReadCollections ==
    InitialCollections
    \cup { cycle_tasks(<<DInt(2)>>, <<DInt(1)>>, <<>>, <<>>),
           cycle_tasks(<<>>, <<DStr(Str3("2", ".", "1"))>>, <<DInt(99)>>, <<DInt(3)>>) }

InitRead ==
    /\ tasks \in ReadCollections
    /\ task_execution_history = <<>>
    /\ call = NoCall
    /\ ret = RetNone
    /\ pre = tasks
    /\ preHistory = <<>>
    /\ nops = 0
    /\ frames = <<>>
    /\ threads = NoThreads

ReadResolve ==
    \E s \in IdInputs \cup {<<>>, Str1("x")} :
        Finish([NoCall EXCEPT !.op = "get_task_by_id", !.id = s],
               IF GetTaskById(tasks, s).kind = "none" THEN RetNone
               ELSE RetEntity(GetTaskById(tasks, s)),
               LeftByRead(tasks), task_execution_history)

ReadNext ==
    Finish([NoCall EXCEPT !.op = "find_next_task"],
           IF FindNextTask(tasks) = 0 THEN RetNone
           ELSE RetEntity(TaskRef(FindNextTask(tasks))),
           LeftByRead(tasks), task_execution_history)

ReadCycle ==
    Finish([NoCall EXCEPT !.op = "find_circular_dependencies"],
           IF Len(FindCircularDependencies(tasks)) = 0 THEN RetNone
           ELSE RetCycle(FindCircularDependencies(tasks)),
           LeftByRead(tasks), task_execution_history)

ReadReport ==
    Finish([NoCall EXCEPT !.op = "generate_markdown_table_tasks_report"],
           RetReport(ReportRows(tasks)),
           LeftByRead(tasks), task_execution_history)

NextRead ==
    \/ ReadResolve
    \/ ReadNext
    \/ ReadCycle
    \/ ReadReport
    \/ SetStatus

SpecRead == InitRead /\ [][NextRead]_vars

ReadOps ==
    {"get_task_by_id", "find_next_task", "find_circular_dependencies",
     "generate_markdown_table_tasks_report"}

-----------------------------------------------------------------------------
(* add_new_task called by two threads on the same collection. The function  *)
(* takes no lock: a thread can be suspended between any two statements,     *)
(* so the steps of the two calls interleave in every order.                 *)

RaceDepInputs == { <<>>, <<DInt(1), DInt(5)>> }

\* lines 195-198: new_id from the collection as the thread finds it
ThreadNewId(t) ==
    /\ threads[t].pc = "idle"
    /\ \E p \in PriorityInputs, deps \in RaceDepInputs :
           threads' = [threads EXCEPT ![t] =
                          [pc |-> "new_id", new_id |-> NewId(tasks),
                           priority |-> p, deps |-> deps,
                           valid_deps |-> <<>>, base |-> tasks]]
    /\ UNCHANGED <<tasks, task_execution_history, call, ret, pre, preHistory,
                   nops, frames>>

\* lines 201-207: the dependency filter
ThreadValidDeps(t) ==
    /\ threads[t].pc = "new_id"
    /\ threads' = [threads EXCEPT ![t].pc = "valid_deps",
                                  ![t].valid_deps = ValidDeps(tasks, threads[t].deps)]
    /\ UNCHANGED <<tasks, task_execution_history, call, ret, pre, preHistory,
                   nops, frames>>

\* AppendComputed that numbers the task when it appends it
AppendRenumbered(ts, th) ==
    Append(ts, Task(NewId(ts), "pending", th.priority, th.valid_deps, <<>>))

\* lines 209-217: the task is built with the new_id computed before
AppendComputed(ts, th) ==
    Append(ts, Task(th.new_id, "pending", th.priority, th.valid_deps, <<>>))

\* lines 209-219: append and return
ThreadAppend(t) ==
    /\ threads[t].pc = "valid_deps"
    /\ tasks' = AppendComputed(tasks, threads[t])
    /\ threads' = [threads EXCEPT ![t].pc = "returned"]
    /\ call' = [NoCall EXCEPT !.op = "add_new_task",
                              !.priority = threads[t].priority,
                              !.deps = threads[t].deps]
    /\ ret' = RetEntity(TaskRef(Len(tasks) + 1))
    /\ pre' = tasks
    /\ preHistory' = task_execution_history
    /\ nops' = nops + 1
    /\ UNCHANGED <<task_execution_history, frames>>

NextRace ==
    \E t \in Threads :
        \/ ThreadNewId(t)
        \/ ThreadValidDeps(t)
        \/ ThreadAppend(t)

SpecRace == Init /\ [][NextRace]_vars

\* both calls have returned
BothReturned == \A t \in Threads : threads[t].pc = "returned"

\* both threads computed new_id before either appended: they found the same
\* collection
ComputedTogether == threads["t1"].base = threads["t2"].base

\* C23: when two add_new_task calls interleave so that both compute new_id
\* before either appends, the two new tasks get the same id and the task ids
\* are no longer unique; when one call computes new_id after the other has
\* appended (the serialized orders among them) the ids stay unique.
C23_InterleavedAddsShareAnId ==
    BothReturned =>
        /\ Len(tasks) >= 2
        /\ ComputedTogether =>
               /\ tasks[Len(tasks)].id = tasks[Len(tasks) - 1].id
               /\ ~UniqueIds(tasks)
        /\ ~ComputedTogether =>
               /\ tasks[Len(tasks)].id = tasks[Len(tasks) - 1].id + 1
               /\ UniqueIds(tasks)

C23_Witness ==
    /\ BothReturned
    /\ ComputedTogether
    /\ Len(tasks) = 6
    /\ tasks[5].id = 5
    /\ tasks[6].id = 5
    /\ ~UniqueIds(tasks)

-----------------------------------------------------------------------------
(* set_task_status statement by statement: frames holds a frame for the    *)
(* call and one for every call it is waiting for, innermost last. A frame  *)
(* holds the arguments, the local variable item and the place in the code. *)

\* the frame of a call that starts on the collection ts: item is what line
\* 142 finds, which is what the collection holds when the call starts
NewFrame(ts, id, st) ==
    [id |-> id, status |-> st, pc |-> "entry",
     item |-> IF ValidStatus(st) THEN GetTaskById(ts, id) ELSE NoRef]

\* ReturnFrom that stays in the frame
ReturnNowhere(fr) ==
    fr

\* return: the innermost frame is left
ReturnFrom(fr) ==
    SubSeq(fr, 1, Len(fr) - 1)

\* one step of the innermost frame: lines 138-168 at "entry", lines 170-189
\* at "propagate", line 189 at "after_call"; ret is what a return or a raise
\* of this step hands over
SetTaskStatusStep(ts, hist, fr) ==
    LET f == fr[Len(fr)]
        r == f.item
        out(ts1, h1, fr1, rt) ==
            [tasks |-> ts1, history |-> h1, frames |-> fr1, ret |-> rt]
    IN  IF f.pc = "entry"
        THEN IF ~ValidStatus(f.status) \/ r.kind = "none"
             THEN out(ts, hist, ReturnFrom(fr), RetBool(FALSE))
             ELSE IF AlreadySet(StatusOf(ts, r), f.status)
             THEN out(ts, hist, ReturnFrom(fr), RetBool(TRUE))
             ELSE out(AssignStatus(ts, r, f.status),
                      RecordExecution(hist, f.id, StatusOf(ts, r), f.status),
                      [fr EXCEPT ![Len(fr)].pc = "propagate"], RetNone)
        ELSE IF f.pc = "propagate"
        THEN IF RuleA(ts, r, f.status)
             THEN out(PropagateDown(ts, r.ti), hist, ReturnFrom(fr),
                      RetBool(TRUE))
             ELSE IF r.kind = "subtask" /\ f.status = "done"
             THEN LET pi == FirstWithId(ts, ts[r.ti].subtasks[r.si].parent_task_id)
                  IN  IF pi # 0 /\ Len(ts[pi].subtasks) > 0
                         /\ AllSubsDone(ts[pi]) /\ ts[pi].status # "done"
                      THEN IF ~TaskHasParentTaskId
                           THEN \* line 186 raises through every frame
                                out([ts EXCEPT ![pi].status = "done"], hist,
                                    <<>>, RetRaise("AttributeError"))
                           ELSE IF ts[pi].parent_task_id # 0
                           THEN \* line 187: the call on the parent's parent
                                out([ts EXCEPT ![pi].status = "done"], hist,
                                    Append([fr EXCEPT ![Len(fr)].pc = "after_call"],
                                           NewFrame([ts EXCEPT ![pi].status = "done"],
                                                    IntToStr(ts[pi].parent_task_id),
                                                    "done")),
                                    RetNone)
                           ELSE out([ts EXCEPT ![pi].status = "done"], hist,
                                    ReturnFrom(fr), RetBool(TRUE))
                      ELSE out(ts, hist, ReturnFrom(fr), RetBool(TRUE))
             ELSE out(ts, hist, ReturnFrom(fr), RetBool(TRUE))
        ELSE out(ts, hist, ReturnFrom(fr), RetBool(TRUE))

\* a caller calls set_task_status
CallSetStatus ==
    /\ frames = <<>>
    /\ nops < MaxOps
    /\ \E id \in IdInputs, st \in StatusInputs :
           /\ frames' = << NewFrame(tasks, id, st) >>
           /\ call' = [NoCall EXCEPT !.op = "set_task_status", !.id = id,
                                     !.status = st]
    /\ ret' = RetNone
    /\ pre' = tasks
    /\ preHistory' = task_execution_history
    /\ nops' = nops + 1
    /\ UNCHANGED <<tasks, task_execution_history, threads>>

\* the call in progress runs its next step; what the outermost frame returns
\* or raises is the result of the call
StepSetStatus ==
    /\ frames # <<>>
    /\ tasks' = SetTaskStatusStep(tasks, task_execution_history, frames).tasks
    /\ task_execution_history' =
           SetTaskStatusStep(tasks, task_execution_history, frames).history
    /\ frames' = SetTaskStatusStep(tasks, task_execution_history, frames).frames
    /\ ret' = IF SetTaskStatusStep(tasks, task_execution_history, frames).frames = <<>>
              THEN SetTaskStatusStep(tasks, task_execution_history, frames).ret
              ELSE ret
    /\ UNCHANGED <<call, pre, preHistory, nops, threads>>

NextSteps ==
    \/ CallSetStatus
    \/ StepSetStatus

\* a call that has started keeps running: nothing in set_task_status waits
SpecSteps == Init /\ [][NextSteps]_vars /\ WF_vars(StepSetStatus)

\* the number of ancestor levels above a subtask
AncestorLevels == 1

-----------------------------------------------------------------------------
(* The scheduling loop: a client that calls find_next_task and sets the      *)
(* task it got to done, until find_next_task returns None.                   *)

\* the collections of the cycle tests in which the subtask depends on
\* nothing or on task 1, and three more: a reference written as a string
\* without a dot, a done task that owns a pending subtask, and a blocked task
ScheduleCollections ==
    {cycle_tasks(d1, d2, d21, d3) :
        d1 \in CycleDepLists, d2 \in CycleDepLists,
        d21 \in {<<>>, <<DInt(1)>>}, d3 \in CycleDepLists}
    \cup { cycle_tasks(<<DStr(Str1("3"))>>, <<>>, <<>>, <<>>),
           << Task(1, "done", DEFAULT_PRIORITY, <<>>,
                   << Subtask(1, "pending", <<>>, 1) >>),
              Task(2, "pending", "high",
                   <<DStr(Str3("1", ".", "1"))>>, <<>>) >>,
           << Task(1, "blocked", DEFAULT_PRIORITY, <<>>, <<>>),
              Task(2, "pending", DEFAULT_PRIORITY, <<DInt(1)>>, <<>>) >> }

InitSchedule ==
    /\ tasks \in ScheduleCollections
    /\ task_execution_history = <<>>
    /\ call = NoCall
    /\ ret = RetNone
    /\ pre = tasks
    /\ preHistory = <<>>
    /\ nops = 0
    /\ frames = <<>>
    /\ threads = NoThreads

\* the call the client makes next: find_next_task, and after a task was
\* returned set_task_status with the id of that task and done
NextCall ==
    IF call.op = "find_next_task"
    THEN [NoCall EXCEPT !.op = "set_task_status",
                        !.id = TaskLabel(tasks[ret.ref.ti]),
                        !.status = "done"]
    ELSE [NoCall EXCEPT !.op = "find_next_task"]

\* the client asks for the next task
ScheduleFind ==
    /\ call.op # "find_next_task"
    /\ FinishWithin(nops + 1, NextCall,
                    IF FindNextTask(tasks) = 0 THEN RetNone
                    ELSE RetEntity(TaskRef(FindNextTask(tasks))),
                    tasks, task_execution_history)

\* the client sets the task it was given to done
ScheduleSetDone ==
    /\ call.op = "find_next_task"
    /\ ret.kind = "task"
    /\ FinishWithin(nops + 1, NextCall,
                    SetTaskStatus(tasks, task_execution_history,
                                  NextCall.id, "done").ret,
                    SetTaskStatus(tasks, task_execution_history,
                                  NextCall.id, "done").tasks,
                    SetTaskStatus(tasks, task_execution_history,
                                  NextCall.id, "done").history)

NextSchedule == ScheduleFind \/ ScheduleSetDone

\* a step of the loop, told by the call it makes: the loop stops when
\* find_next_task has returned None
ClientGoesOn ==
    /\ call.op = "find_next_task" => ret.kind = "task"
    /\ call' = NextCall

\* every call is a computation that returns (set_task_status: see C24), so
\* the client that is not stopped makes its next call
SpecSchedule ==
    InitSchedule /\ [][NextSchedule]_vars /\ WF_call(ClientGoesOn)

\* every dependency list of the collection
AllDepLists(ts) ==
    {ts[i].dependencies : i \in 1..Len(ts)}
    \cup UNION {{ts[i].subtasks[j].dependencies :
                    j \in 1..Len(ts[i].subtasks)} : i \in 1..Len(ts)}

\* every dependency reference in the collection resolves
AllRefsResolve(ts) ==
    \A deps \in AllDepLists(ts) :
        \A k \in 1..Len(deps) :
            GetTaskById(ts, DepToStr(deps[k])).kind # "none"

NoTaskBlocked(ts) == \A i \in 1..Len(ts) : ts[i].status # "blocked"

AllTasksDone(ts) == \A i \in 1..Len(ts) : ts[i].status = "done"

\* what the claim asks of the collection
Schedulable(ts) ==
    /\ AllRefsResolve(ts)
    /\ OnCycle(ts) = {}
    /\ NoTaskBlocked(ts)

\* task i cannot be returned before task k is set to done: i is not done and
\* refers to k, which is not done, or to a subtask of k that is not done
WaitsFor(ts, i, k) ==
    /\ ts[i].status # "done"
    /\ \E n \in 1..Len(ts[i].dependencies) :
           LET d == ts[i].dependencies[n]
               r == GetTaskById(ts, DepToStr(d))
           IN  \/ d.isInt /\ ts[k].id = d.n /\ ts[k].status # "done"
               \/ /\ ~d.isInt
                  /\ r.kind = "subtask"
                  /\ r.ti = k
                  /\ StatusOf(ts, r) # "done"

WaitingPairs(ts) ==
    {p \in (1..Len(ts)) \X (1..Len(ts)) : WaitsFor(ts, p[1], p[2])}

\* a reference of a task that is not done which the loop never satisfies: a
\* string without a dot, or a subtask that is not done and whose owner is
NeverSatisfied(ts, i) ==
    /\ ts[i].status # "done"
    /\ \E n \in 1..Len(ts[i].dependencies) :
           LET d == ts[i].dependencies[n]
               r == GetTaskById(ts, DepToStr(d))
           IN  /\ ~d.isInt
               /\ \/ ~HasDot(d.s)
                  \/ /\ r.kind = "subtask"
                     /\ StatusOf(ts, r) # "done"
                     /\ ts[r.ti].status = "done"

\* no task waits for itself, directly or through other tasks, and no task
\* has a reference that is never satisfied
NoTaskWaitsForItself(ts) ==
    /\ \A i \in 1..Len(ts) : ~NeverSatisfied(ts, i)
    /\ \A i \in 1..Len(ts) :
           <<i, i>> \notin Paths(WaitingPairs(ts), WaitingPairs(ts), Len(ts))

\* C27 as stated: when every reference resolves, the graph is acyclic and no
\* task is blocked, find_next_task returns a task whenever some task is not
\* done, and the loop makes every task done.
C27_AcyclicIsScheduled ==
    /\ []((call.op = "find_next_task" /\ Schedulable(tasks)
             /\ ~AllTasksDone(tasks)) => ret.kind = "task")
    /\ (Schedulable(tasks) ~> AllTasksDone(tasks))

\* C27 amended: when moreover every reference is satisfiable by the loop (an
\* integer, or a composite label of a subtask that is done or owned by a
\* task that is not done) and, counting a reference to a subtask that is not
\* done as a reference to its owner, no task waits for itself, then
\* find_next_task returns a task whenever some task is not done, and the
\* loop makes every task done.
C27_ScheduledWhenNoTaskWaitsForItself ==
    /\ []((call.op = "find_next_task" /\ Schedulable(tasks)
             /\ NoTaskWaitsForItself(tasks)
             /\ ~AllTasksDone(tasks)) => ret.kind = "task")
    /\ ((Schedulable(tasks) /\ NoTaskWaitsForItself(tasks))
            ~> AllTasksDone(tasks))

C27_Witness ==
    /\ call.op = "set_task_status" /\ ret = RetBool(TRUE)
    /\ Schedulable(pre) /\ NoTaskWaitsForItself(pre)
    /\ AllTasksDone(tasks)
    /\ Len(task_execution_history) = 3
    /\ task_execution_history[1].task_id = Str1("2")
    /\ \E i \in 1..Len(tasks) :
           /\ tasks[i].id # 2
           /\ \E n \in 1..Len(tasks[i].dependencies) :
                  tasks[i].dependencies[n] = DStr(Str3("2", ".", "1"))

\* the nodes that are not done
NotDoneNodes(ts) ==
    {n \in GraphNodes(ts) :
        /\ \A i \in TasksNamed(ts, n) : ts[i].status # "done"
        /\ \A ij \in SubtasksNamed(ts, n) :
               ts[ij[1]].subtasks[ij[2]].status # "done"}

\* the edges between nodes that are not done
OpenEdges(ts) ==
    {e \in GraphEdges(ts) : e[1] \in NotDoneNodes(ts) /\ e[2] \in NotDoneNodes(ts)}

\* the nodes that lie on a cycle none of whose nodes is done
OnOpenCycle(ts) ==
    LET R == Paths(OpenEdges(ts), OpenEdges(ts), Cardinality(GraphNodes(ts)))
    IN  {n \in GraphNodes(ts) : <<n, n>> \in R}

\* C28: find_next_task never returns a Task that lies on a dependency cycle
\* none of whose tasks and subtasks is done, in any state of the loop in
\* which the members of the cycle still have those statuses.
C28_TaskOnOpenCycleIsNotReturned ==
    (call.op = "find_next_task" /\ ret.kind = "task") =>
        TaskLabel(tasks[ret.ref.ti]) \notin OnOpenCycle(tasks)

C28_Witness ==
    /\ call.op = "find_next_task"
    /\ ret = RetEntity(TaskRef(3))
    /\ Str1("1") \in OnOpenCycle(tasks)
    /\ Str3("2", ".", "1") \in OnOpenCycle(tasks)
    /\ tasks[1].status = "pending"

-----------------------------------------------------------------------------
(* Runs of add_new_task and add_subtask with dependency lists *)

\* the sample collection, whose references resolve, the empty one, and the
\* three tasks of the cycle tests: without references, with references that
\* resolve, with references to the ids the next task and the next subtask
\* of task 2 will get, and with the cycle of the tasks 1 and 3
CreateCollections ==
    { sample_tasks_list("done", "pending", "pending", "pending", "done", "pending"),
      <<>> }
    \cup { cycle_tasks(d1, <<>>, d21, d3) :
              d1 \in {<<>>, <<DInt(2)>>, <<DInt(3)>>},
              d21 \in {<<>>, <<DInt(1)>>, <<DInt(4)>>},
              d3 \in {<<>>, <<DInt(1)>>, <<DStr(Str3("2", ".", "2"))>>} }

\* the dependencies asked for: none, two entities of every collection, and
\* the ids a new task or a new subtask may get itself
CreateDepLists ==
    { <<>>,
      <<DInt(1), DStr(Str3("2", ".", "1"))>>,
      <<DInt(4), DInt(5), DStr(Str3("1", ".", "1")), DStr(Str3("2", ".", "2")),
        DStr(Str3("3", ".", "3"))>> }

CreateParents == {1, 2, 3}

InitCreate ==
    /\ tasks \in CreateCollections
    /\ task_execution_history = <<>>
    /\ call = NoCall
    /\ ret = RetNone
    /\ pre = tasks
    /\ preHistory = <<>>
    /\ nops = 0
    /\ frames = <<>>
    /\ threads = NoThreads

CreateTask ==
    \E deps \in CreateDepLists :
        Finish([NoCall EXCEPT !.op = "add_new_task",
                              !.priority = DEFAULT_PRIORITY, !.deps = deps],
               RetEntity(TaskRef(Len(tasks) + 1)),
               AddNewTask(tasks, DEFAULT_PRIORITY, deps),
               task_execution_history)

CreateSubtask ==
    \E parent \in CreateParents, deps \in CreateDepLists :
        IF FindParent(tasks, parent) = 0
        THEN Finish([NoCall EXCEPT !.op = "add_subtask", !.parent = parent,
                                   !.priority = DEFAULT_PRIORITY, !.deps = deps],
                    RetRaise("ParentTaskNotFoundError"),
                    tasks, task_execution_history)
        ELSE Finish([NoCall EXCEPT !.op = "add_subtask", !.parent = parent,
                                   !.priority = DEFAULT_PRIORITY, !.deps = deps],
                    RetEntity(SubRef(FindParent(tasks, parent),
                        Len(tasks[FindParent(tasks, parent)].subtasks) + 1)),
                    AddSubtaskTo(tasks, FindParent(tasks, parent), parent, deps),
                    task_execution_history)

NextCreate == CreateTask \/ CreateSubtask

SpecCreate == InitCreate /\ [][NextCreate]_vars

\* the label of the entity a call has returned
ReturnedLabel ==
    IF ret.kind = "task" THEN TaskLabel(tasks[ret.ref.ti])
    ELSE SubtaskLabel(tasks[ret.ref.ti], tasks[ret.ref.ti].subtasks[ret.ref.si])

\* C29: when before add_new_task or add_subtask every dependency reference
\* resolves and the graph is acyclic, the graph is acyclic after the call
\* and every reference still resolves: the edges of the new node lead to
\* nodes that existed before, and no node that existed refers to it.
C29_CreationKeepsAcyclic ==
    (call.op \in {"add_new_task", "add_subtask"}
       /\ ret.kind \in {"task", "subtask"}
       /\ AllRefsResolve(pre) /\ OnCycle(pre) = {}) =>
        /\ OnCycle(tasks) = {}
        /\ AllRefsResolve(tasks)
        /\ GraphNodes(tasks) = GraphNodes(pre) \cup {ReturnedLabel}
        /\ ReturnedLabel \notin GraphNodes(pre)
        /\ \A e \in GraphEdges(tasks) \ GraphEdges(pre) :
               e[1] = ReturnedLabel /\ e[2] \in GraphNodes(pre)

C29_Witness ==
    /\ call.op = "add_subtask" /\ ret.kind = "subtask"
    /\ AllRefsResolve(pre) /\ OnCycle(pre) = {}
    /\ Len(pre) = 4
    /\ ReturnedLabel = Str3("2", ".", "1")
    /\ \E k \in 1..Len(call.deps) : call.deps[k] = DStr(Str3("2", ".", "1"))
    /\ <<Str3("2", ".", "1"), Str1("1")>> \in GraphEdges(tasks)
    /\ OnCycle(tasks) = {}

-----------------------------------------------------------------------------
(* An id after the removal of its entity *)

\* the ids in use in seq
IdsOf(seq) == {seq[k].id : k \in 1..Len(seq)}

\* the last call was a remove_command that took out the task with the
\* greatest id, n
RemovedGreatestTask(n) ==
    /\ call.op = "remove_command" /\ ret = RetExit(0)
    /\ \E i \in TasksNamed(pre, call.id) :
           /\ pre[i].id = n
           /\ \A k \in 1..Len(pre) : pre[k].id <= n

\* the last call was a remove_subtask that took out the subtask with the
\* greatest id, n, of the task with id p
RemovedGreatestSubtask(p, n) ==
    /\ call.op = "remove_subtask" /\ ret = RetBool(TRUE)
    /\ call.sub = n
    /\ \E i \in TasksNamed(pre, call.id) :
           /\ pre[i].id = p
           /\ \A j \in 1..Len(pre[i].subtasks) : pre[i].subtasks[j].id <= n

\* n is 1 or follows an id of seq
FollowsAnId(seq, n) ==
    n = 1 \/ \E k \in 1..Len(seq) : seq[k].id = n - 1

\* the next call is an add_new_task
AddsTask ==
    call'.op = "add_new_task" /\ ret'.kind = "task"

\* the next call is an add_subtask to the task with id p
AddsSubtask(p) ==
    call'.op = "add_subtask" /\ call'.parent = p /\ ret'.kind = "subtask"

\* the references of the collection ts that are written as d
RefersTo(ts, d) ==
    \E deps \in AllDepLists(ts) : \E k \in 1..Len(deps) : deps[k] = d

\* C30 as stated: after the removal of the task with the greatest id the
\* next add_new_task assigns that id again, and likewise for the subtask
\* with the greatest id of a parent.
C30_GreatestIdIsAssignedAgain ==
    [][/\ \A n \in IdsOf(pre) :
              (RemovedGreatestTask(n) /\ AddsTask) =>
                  tasks'[ret'.ref.ti].id = n
       /\ \A p \in IdsOf(pre), n \in {call.sub} :
              (RemovedGreatestSubtask(p, n) /\ AddsSubtask(p)) =>
                  tasks'[ret'.ref.ti].subtasks[ret'.ref.si].id = n]_vars

\* C30 amended: after the removal of the task with the greatest id the next
\* add_new_task assigns the greatest id that is left plus one, or 1 when no
\* task is left; this is the removed id again when the id below it is still
\* in use or the removed id was 1, and then a reference to the removed id
\* that the removal left dangling resolves to the new task. Likewise for
\* the subtask with the greatest id of a parent, remove_subtask and
\* add_subtask.
C30_IdsAreNotReserved ==
    [][/\ \A n \in IdsOf(pre) :
              (RemovedGreatestTask(n) /\ AddsTask) =>
                  /\ FollowsAnId(tasks, tasks'[ret'.ref.ti].id)
                  /\ \A k \in 1..Len(tasks) : tasks[k].id < tasks'[ret'.ref.ti].id
                  /\ FollowsAnId(tasks, n) =>
                         /\ tasks'[ret'.ref.ti].id = n
                         /\ GetTaskById(tasks, IntToStr(n)).kind = "none"
                         /\ GetTaskById(tasks', IntToStr(n)) = ret'.ref
       /\ \A p \in IdsOf(pre), n \in {call.sub} :
              (RemovedGreatestSubtask(p, n) /\ AddsSubtask(p)) =>
                  /\ FollowsAnId(tasks[ret'.ref.ti].subtasks,
                                 tasks'[ret'.ref.ti].subtasks[ret'.ref.si].id)
                  /\ \A j \in 1..Len(tasks[ret'.ref.ti].subtasks) :
                         tasks[ret'.ref.ti].subtasks[j].id
                             < tasks'[ret'.ref.ti].subtasks[ret'.ref.si].id
                  /\ FollowsAnId(tasks[ret'.ref.ti].subtasks, n) =>
                         /\ tasks'[ret'.ref.ti].subtasks[ret'.ref.si].id = n
                         /\ GetTaskById(tasks, IntToStr(p) \o <<".">> \o IntToStr(n)).kind
                                = "none"
                         /\ GetTaskById(tasks', IntToStr(p) \o <<".">> \o IntToStr(n))
                                = ret'.ref]_vars

C30_Witness ==
    /\ call.op = "add_new_task" /\ ret = RetEntity(TaskRef(3))
    /\ nops = 2
    /\ Len(pre) = 2
    /\ RefersTo(pre, DInt(3))
    /\ GetTaskById(pre, Str1("3")).kind = "none"
    /\ tasks[3].id = 3
    /\ RefersTo(tasks, DInt(3))
    /\ GetTaskById(tasks, Str1("3")) = TaskRef(3)

====
